---- MODULE Spec2Model ----
(***************************************************************************)
(* A model of gitmopy's commit command: the commit wizard                  *)
(* (prompt.commit_prompt wrapped by cli.catch_keyboard_interrupt), the     *)
(* commit loop of cli.commit, the formatting of the commit message         *)
(* (utils.message_from_commit_dict) and the remote orchestration           *)
(* (cli.push_cli, cli.pull_cli, git.has_upstreams).                        *)
(*                                                                         *)
(* Strings are sequences of one-character strings, so that strip(),        *)
(* capitalize() and concatenation are computed and not assumed.            *)
(***************************************************************************)
EXTENDS Integers, Sequences, FiniteSets, TLC

VARIABLES
    \* ---- utils.message_from_commit_dict / utils.safe_capitalize applied to a record
    rec,        \* the commit dict handed to the pure functions
    out,        \* the formatted message, or NoValue before the call
    capOut,     \* safe_capitalize(rec.title), or NoValue before the call
    banner,     \* format_remotes_diff(repo) as last computed, or NoValue
    offered,    \* the choices last handed to what_now_prompt
    key,        \* the field a GMPCompleter was built for
    document,   \* the text typed so far into the prompt of the completer
    completions, \* whether get_completions was called, and the texts it yielded
    \* ---- cli.commit: the command's arguments, the configuration, the repository
    flags,      \* [dry, add, push, sign, keep]: the options of the commit command
    cfg,        \* load_config(): [skip_scope, skip_message, capitalize_title, enable_history]
    repoValid,  \* git.Repo(path) succeeds
    rounds,     \* how many times push or sync was chosen in should_commit_again
    tree,       \* the repository's files: [staged, unstaged, untracked]
    status,     \* get_files_status(repo) as read at the top of the loop
    to_add,     \* the files chosen in git_add_prompt
    history,    \* the entries the history file holds, parseable or not
    clock,      \* history.timestamp(): the current time in seconds
    commits,    \* the commits created, each by its message
    printed,    \* the formatted commit printed by a dry run, or NoValue
    \* ---- history.py and the history file
    shape,      \* what the history file is: absent, a list of entries, or malformed
    HISTORY,    \* constants.HISTORY: the history held in memory
    EMOJIS,     \* constants.EMOJIS: the emojis in the order the emoji prompt lists them
    pc,         \* where the command stands
    outcome,    \* "running", or how the command ended
    \* ---- prompt.commit_prompt inside cli.catch_keyboard_interrupt
    wpc,        \* the prompt of the wizard that is active
    wiz,        \* the fields of the wizard: emoji, scope, title, message
    typed,      \* what the user typed into each prompt of the running wizard
    recoverOf,  \* the wrapped function whose run ended "cancelled"
    ev,         \* the last thing that happened at a prompt
    titleCancelled, \* a wizard run of this command was interrupted at the title prompt
    restarts,   \* how many times the commit loop was restarted from the recovery prompt
    \* ---- cli.push_cli, cli.pull_cli, git.has_upstreams
    remotes,    \* repo.remotes: the configured remotes, in the repository's order
    cli,        \* the names given with --remote, in the order given
    refs,       \* the remotes with a remote-tracking ref <remote>/<branch>
    div,        \* per remote, the commits the branch is ahead of and behind its ref
    calls,      \* the calls still to run: "push" (push_cli), "pull" (pull_cli)
    rpc,        \* where the running call stands: "select", "fetch", "remote"
    selected_remotes, \* the names push_cli or pull_cli works on
    remote_upstreams, \* has_upstreams(repo, selected_remotes, branch)
    idx,        \* the position in repo.remotes of the remote the loop is at
    log         \* the prompts shown, the git operations run, the lines printed

fmtVars  == <<rec, out, capOut, banner, offered, key, document, completions>>
cmdVars  == <<flags, cfg, repoValid, rounds>>
histVars == <<shape, HISTORY, EMOJIS>>
repoVars == <<tree, status, to_add, history, commits, printed, clock>>
wizVars  == <<wpc, wiz, typed, recoverOf, titleCancelled, restarts>>
remVars  == <<remotes, cli, refs, div, calls, rpc, selected_remotes,
             remote_upstreams, idx, log>>
vars == <<key, document, completions, shape, HISTORY, EMOJIS,
          rec, out, capOut, banner, offered, flags, cfg, repoValid, rounds, tree,
          status, to_add, history, clock, commits, printed, pc, outcome, wpc, wiz,
          typed, recoverOf, ev, titleCancelled, restarts, remotes, cli, refs, div,
          calls, rpc, selected_remotes, remote_upstreams, idx, log>>

\* a value that is no string: a field not yet set, a function not yet called
NoValue == <<"<none>">>

\* get_completions not called yet
NotCalled == [called |-> FALSE, texts |-> <<>>]


(***************************************************************************)
(* Bounds of the model.                                                    *)
(***************************************************************************)
MaxLen == 2        \* longest string typed into a text prompt / held by a field
MaxRestarts == 1   \* restarts of the commit loop from the recovery prompt
MaxRemotes == 2    \* configured remotes
MaxCliArgs == 2    \* names given with --remote
MaxCount == 1      \* commits ahead of, or behind, a remote when the command starts
MaxRounds == 1     \* times push or sync is chosen in the "commit again" prompt
MaxStored == 2     \* entries in the history file when the command starts

(***************************************************************************)
(* Strings.                                                                *)
(***************************************************************************)
\* the characters a user types: a lower-case letter, an upper-case letter, a blank
Chars == {"a", "A", " "}

\* the values of the gitmoji choices (one grapheme cluster each)
Emojis == {<<":art:">>, <<":sparkles:">>}

StringsUpTo(n) == UNION {[1..k -> Chars] : k \in 0..n}

\* str.isspace() of one character
IsSpace(c) == c \in {" ", "\n", "\t"}

Upper(c) == IF c = "a" THEN "A" ELSE c
Lower(c) == IF c = "A" THEN "a" ELSE c

RECURSIVE LStrip(_)
LStrip(s) == IF s # <<>> /\ IsSpace(Head(s)) THEN LStrip(Tail(s)) ELSE s

RECURSIVE RStrip(_)
RStrip(s) ==
    IF s # <<>> /\ IsSpace(s[Len(s)]) THEN RStrip(SubSeq(s, 1, Len(s) - 1)) ELSE s

\* str.strip()
Strip(s) == RStrip(LStrip(s))

\* str.capitalize(): first character upper-cased, every other one lower-cased
Capitalize(s) ==
    IF s = <<>> THEN s
    ELSE <<Upper(s[1])>> \o [i \in 1..(Len(s) - 1) |-> Lower(s[i + 1])]

\* utils.safe_capitalize
SafeCapitalize(s) ==
    IF s = <<>> THEN s
    ELSE IF Len(s) = 1 THEN <<Upper(s[1])>>
    ELSE <<Upper(s[1])>> \o SubSeq(s, 2, Len(s))

\* message_from_commit_dict with the scope segment written for every record
MessageAlwaysScoped(commit_dict) ==
    Strip(commit_dict.emoji \o <<" ", "(">> \o commit_dict.scope \o <<")", ":", " ">>
          \o commit_dict.title \o <<"\n", "\n">> \o commit_dict.message)

\* utils.message_from_commit_dict
MessageFromCommitDict(commit_dict) ==
    LET m0 == commit_dict.emoji \o <<" ">>
        m1 == IF commit_dict.scope # <<>>
              THEN m0 \o <<"(">> \o commit_dict.scope \o <<")", ":", " ">>
              ELSE m0
        m2 == m1 \o commit_dict.title \o <<"\n", "\n">> \o commit_dict.message
    IN  Strip(m2)

(***************************************************************************)
(* What the user may type and what the repository may hold.                *)
(***************************************************************************)
\* text-prompt inputs of the whole command: enough to tell apart two runs,
\* a blank to strip, an upper-case letter to keep
FewScopes   == {<<>>, <<"a", " ">>}
FewTitles   == {<<"a">>, <<" ">>, <<"a", "A">>}
FewMessages == {<<>>, <<" ", "A">>}

Files == {"a.txt", "b.txt", "c.txt"}

NoFiles == [staged |-> {}, unstaged |-> {}, untracked |-> {}]

\* the worktrees the command is started in
Trees ==
    { NoFiles,
      [staged |-> {"a.txt"}, unstaged |-> {}, untracked |-> {}],
      [staged |-> {}, unstaged |-> {"b.txt"}, untracked |-> {"c.txt"}],
      [staged |-> {"a.txt"}, unstaged |-> {"b.txt"}, untracked |-> {}] }

\* git.get_files_status
GetFilesStatus(t) ==
    [read |-> TRUE, staged |-> t.staged, unstaged |-> t.unstaged,
     untracked |-> t.untracked]

\* cli.commit reads no status when the repository could not be opened
StatusNotRead == [read |-> FALSE, staged |-> {}, unstaged |-> {}, untracked |-> {}]

\* a count of the staged files alone
NbStaged(st) == Cardinality(st.staged)

\* sum([len(v) for v in status.values()])
NbFiles(st) ==
    Cardinality(st.staged) + Cardinality(st.unstaged) + Cardinality(st.untracked)

(***************************************************************************)
(* prompt.commit_prompt: the wizard.                                       *)
(***************************************************************************)
\* the wizard state handed to commit_prompt by cli.commit: no field entered
FreshState ==
    [emoji |-> NoValue, scope |-> NoValue, title |-> NoValue, message |-> NoValue]

\* the title the wizard keeps of what the title prompt returned
TitleOf(config, t) ==
    IF config.capitalize_title THEN Capitalize(Strip(t)) ELSE Strip(t)

\* validate=lambda t: len(t) > 0
TitleValid(t) == Len(t) > 0

\* the prompt after the emoji prompt
AfterEmoji(config) == IF config.skip_scope THEN "AskTitle" ELSE "AskScope"

\* the prompt after the title prompt
AfterTitle(config) == IF config.skip_message THEN "Done" ELSE "AskMessage"

\* the wizard returns its record to cli.commit
Returned(next) == IF next = "Done" THEN "record" ELSE "wizard"

\* a wizard that resumes at the prompt the last run stopped at
EnterWizardResumed ==
    /\ pc' = "wizard"
    /\ wpc' = wpc
    /\ wiz' = FreshState
    /\ typed' = FreshState

\* cli.commit calls catch_keyboard_interrupt(commit_prompt, config, {}, simple)
EnterWizard ==
    /\ pc' = "wizard"
    /\ wpc' = "AskEmoji"
    /\ wiz' = FreshState
    /\ typed' = FreshState

AskEmoji ==
    /\ pc = "wizard" /\ wpc = "AskEmoji"
    /\ \E e \in Emojis :
        /\ wiz' = [wiz EXCEPT !.emoji = Strip(e), !.scope = <<>>, !.message = <<>>]
        /\ typed' = [typed EXCEPT !.emoji = e]
    /\ wpc' = AfterEmoji(cfg)
    /\ ev' = [kind |-> "input", at |-> "AskEmoji", input |-> "-"]
    /\ UNCHANGED <<pc, outcome, recoverOf, titleCancelled, restarts>>
    /\ UNCHANGED <<fmtVars, cmdVars, histVars, repoVars, remVars>>

AskScope(inputs) ==
    /\ pc = "wizard" /\ wpc = "AskScope"
    /\ \E s \in inputs :
        /\ wiz' = [wiz EXCEPT !.scope = Strip(s)]
        /\ typed' = [typed EXCEPT !.scope = s]
    /\ wpc' = "AskTitle"
    /\ ev' = [kind |-> "input", at |-> "AskScope", input |-> "-"]
    /\ UNCHANGED <<pc, outcome, recoverOf, titleCancelled, restarts>>
    /\ UNCHANGED <<fmtVars, cmdVars, histVars, repoVars, remVars>>

AskTitle(inputs) ==
    /\ pc = "wizard" /\ wpc = "AskTitle"
    /\ \E t \in inputs :
        /\ TitleValid(t)
        /\ wiz' = [wiz EXCEPT !.title = TitleOf(cfg, t)]
        /\ typed' = [typed EXCEPT !.title = t]
    /\ wpc' = AfterTitle(cfg)
    /\ pc' = Returned(AfterTitle(cfg))
    /\ ev' = [kind |-> "input", at |-> "AskTitle", input |-> "-"]
    /\ UNCHANGED <<outcome, recoverOf, titleCancelled, restarts>>
    /\ UNCHANGED <<fmtVars, cmdVars, histVars, repoVars, remVars>>

AskMessage(inputs) ==
    /\ pc = "wizard" /\ wpc = "AskMessage"
    /\ \E m \in inputs :
        /\ wiz' = [wiz EXCEPT !.message = Strip(m)]
        /\ typed' = [typed EXCEPT !.message = m]
    /\ wpc' = "Done"
    /\ pc' = Returned("Done")
    /\ ev' = [kind |-> "input", at |-> "AskMessage", input |-> "-"]
    /\ UNCHANGED <<outcome, recoverOf, titleCancelled, restarts>>
    /\ UNCHANGED <<fmtVars, cmdVars, histVars, repoVars, remVars>>

\* the command ends: typer.Exit(code), typer.Abort, an exception, or Done printed
Exit(code) ==
    /\ pc' = "end"
    /\ outcome' = code

\* a push or sync chosen in the prompt that leads straight back to the loop
ReturningToLoop(keep_alive) == IF keep_alive THEN "loop" ELSE "end"

\* where the command goes once an iteration is over, or the push and pull chosen
\* in should_commit_again are: to should_commit_again with --keep-alive, else
\* to the end of the loop
Returning(keep_alive) == IF keep_alive THEN "again" ELSE "end"

\* "if keep_alive and should_commit_again(repo, remote): continue", else "break"
\* and Done
AgainOrDone ==
    IF Returning(flags.keep) = "end"
    THEN Exit("done")
    ELSE /\ pc' = Returning(flags.keep)
         /\ outcome' = outcome

\* what cli.commit prints before it gives up an iteration
NothingToCommit == <<"Nothing to commit.">>

NoStagedFiles ==
    <<"No staged files. Stage files yourself or use --add to add all unstaged files.">>

NotAValidRepository == <<" is not a valid git repository.">>

\* an invalid repository that ends the command in a dry run too
InvalidRepoAlwaysFatal(dry) == TRUE

\* "except git.exc.InvalidGitRepositoryError: if not dry: ... raise typer.Exit(1)"
InvalidRepoFatal(dry) == ~dry

(***************************************************************************)
(* cli.catch_keyboard_interrupt.                                           *)
(***************************************************************************)
\* ctrl+c in a prompt of the wizard: commit_prompt catches nothing, and _func's
\* "finally: return return_value" ends the run with the "cancelled" sentinel
CancelWizard ==
    /\ pc = "wizard"
    /\ pc' = "recover"
    /\ recoverOf' = "commit_prompt"
    /\ titleCancelled' = (titleCancelled \/ wpc = "AskTitle")
    /\ ev' = [kind |-> "cancel", at |-> wpc, input |-> "-"]
    /\ UNCHANGED <<outcome, wpc, wiz, typed, restarts>>
    /\ UNCHANGED <<fmtVars, cmdVars, histVars, repoVars, remVars>>

\* ctrl+c in git_add_prompt
CancelAdd ==
    /\ pc = "add_prompt"
    /\ pc' = "recover"
    /\ recoverOf' = "git_add_prompt"
    /\ ev' = [kind |-> "cancel", at |-> "git_add_prompt", input |-> "-"]
    /\ UNCHANGED <<outcome, wpc, wiz, typed, titleCancelled, restarts>>
    /\ UNCHANGED <<fmtVars, cmdVars, histVars, repoVars, remVars>>

\* ctrl+c in the recovery prompt: typer.prompt raises Abort and the command exits
CancelRecovery ==
    /\ pc = "recover"
    /\ Exit("abort")
    /\ ev' = [kind |-> "cancel", at |-> "recovery_prompt", input |-> "-"]
    /\ UNCHANGED <<wpc, wiz, typed, recoverOf, titleCancelled, restarts>>
    /\ UNCHANGED <<fmtVars, cmdVars, histVars, repoVars, remVars>>

\* what the user answers to "Press enter to restart ... or q"
RecoveryAnswers == {"q", "enter", "x"}

\* a recovery prompt that restarts on the default answer only
RecoverySignalEnterOnly(answer) == IF answer = "enter" THEN "restart" ELSE "stop"

\* the sentinel catch_keyboard_interrupt returns for an answer
RecoverySignal(answer) == IF answer = "q" THEN "stop" ELSE "restart"

\* the recovery prompt, and what cli.commit does with the sentinel: break on
\* "stop" (then print Done), continue on "restart"
RecoveryPrompt ==
    /\ pc = "recover"
    /\ \E answer \in RecoveryAnswers :
        LET signal == RecoverySignal(answer) IN
        /\ signal = "restart" => restarts < MaxRestarts
        /\ ev' = [kind |-> "recovery", at |-> recoverOf, input |-> answer]
        /\ pc' = IF signal = "stop" THEN "end" ELSE "loop"
        /\ outcome' = IF signal = "stop" THEN "done" ELSE outcome
        /\ restarts' = IF signal = "stop" THEN restarts ELSE restarts + 1
    /\ UNCHANGED <<wpc, wiz, typed, recoverOf, titleCancelled>>
    /\ UNCHANGED <<fmtVars, cmdVars, histVars, repoVars, remVars>>

(***************************************************************************)
(* cli.commit: the loop.                                                   *)
(***************************************************************************)
\* from "while True" to the first prompt of the iteration
CommitLoopTop ==
    /\ pc = "loop"
    /\ ev' = [kind |-> "loop", at |-> "commit", input |-> "-"]
    /\ IF ~repoValid
       THEN IF InvalidRepoFatal(flags.dry)
            THEN /\ printed' = NotAValidRepository
                 /\ Exit("exit1")
                 /\ UNCHANGED <<status, to_add, wpc, wiz, typed>>
            ELSE /\ EnterWizard
                 /\ UNCHANGED <<status, to_add, printed, outcome>>
       ELSE LET st == GetFilesStatus(tree) IN
            /\ status' = st
            /\ to_add' = {}
            /\ IF ~flags.dry /\ NbFiles(st) = 0
               THEN /\ printed' = NothingToCommit
                    /\ IF ~flags.keep
                       THEN Exit("exit0")
                       ELSE pc' = "again" /\ outcome' = outcome
                    /\ UNCHANGED <<wpc, wiz, typed>>
               ELSE IF ~flags.dry /\ st.staged = {} /\ ~flags.add
               THEN /\ printed' = NoStagedFiles
                    /\ Exit("exit1")
                    /\ UNCHANGED <<wpc, wiz, typed>>
               ELSE IF ~flags.dry /\ st.staged = {} /\ flags.add
               THEN pc' = "add_prompt" /\ UNCHANGED <<printed, outcome, wpc, wiz, typed>>
               ELSE EnterWizard /\ UNCHANGED <<printed, outcome>>
    /\ UNCHANGED <<tree, history, commits, clock>>
    /\ UNCHANGED <<recoverOf, titleCancelled, restarts>>
    /\ UNCHANGED <<fmtVars, cmdVars, histVars, remVars>>

\* repo.git.add(f) for f in to_add
Stage(t, files) ==
    [staged |-> t.staged \cup files, unstaged |-> t.unstaged \ files,
     untracked |-> t.untracked \ files]

\* an add prompt that stages the selection as soon as it is made
StagedWhenSelected(t, selected) == Stage(t, selected)

\* git_add_prompt returns the selection and cli.commit keeps it in to_add: the
\* working tree and the index are as they were
TreeAfterAddPrompt(t, selected) == t

\* prompt.git_add_prompt answered, and cli.commit up to the wizard
GitAddPrompt ==
    /\ pc = "add_prompt"
    /\ \E selected \in SUBSET (status.unstaged \cup status.untracked) :
        /\ to_add' = selected
        /\ tree' = TreeAfterAddPrompt(tree, selected)
        /\ IF selected = {}
           THEN AgainOrDone /\ UNCHANGED <<wpc, wiz, typed>>
           ELSE EnterWizard /\ UNCHANGED outcome
    /\ ev' = [kind |-> "input", at |-> "git_add_prompt", input |-> "-"]
    /\ UNCHANGED <<status, history, commits, printed, clock>>
    /\ UNCHANGED <<recoverOf, titleCancelled, restarts>>
    /\ UNCHANGED <<fmtVars, cmdVars, histVars, remVars>>

\* repo.index.commit / repo.git.commit: the index becomes the new HEAD
Committed(t) == [t EXCEPT !.staged = {}]

\* history.save_to_history: the entry appended to the history
HistoryEntry(commit_dict, now) ==
    [emoji |-> commit_dict.emoji, scope |-> commit_dict.scope,
     title |-> commit_dict.title, message |-> commit_dict.message,
     timestamp |-> now]

(***************************************************************************)
(* history.py: the history file, constants.HISTORY, constants.EMOJIS.      *)
(***************************************************************************)
\* what the history file may be: absent; the JSON list of its entries; text
\* that json.loads rejects; the JSON object {}; another JSON value that is no
\* list of objects; a list of objects without the key emoji or timestamp
Shapes == {"absent", "list", "unparseable", "empty_object", "not_a_list", "lacks_keys"}

\* a value held in constants.HISTORY: the kind of Python value and, of a list,
\* its entries
Value(kind, entries) == [kind |-> kind, entries |-> entries]

\* history.load_history: what it leaves in constants.HISTORY
LoadHistory(file_shape, file_entries) ==
    IF file_shape = "absent" THEN Value("list", <<>>)
    ELSE IF file_shape = "unparseable" THEN Value("list", <<>>)
    ELSE IF file_shape = "list" THEN Value("list", file_entries)
    ELSE Value(file_shape, <<>>)

\* the emojis in the order of the built-in list
EmojiList == <<<<":art:">>, <<":sparkles:">>>>

\* x put into a sequence sorted by descending key, behind the elements whose
\* key is not smaller
InsertDesc(sorted, x, keyOf) ==
    LET pos == Cardinality({i \in DOMAIN sorted : keyOf[sorted[i]] >= keyOf[x]})
    IN  SubSeq(sorted, 1, pos) \o <<x>> \o SubSeq(sorted, pos + 1, Len(sorted))

\* sorted(seq, key=..., reverse=True): a stable sort, elements of equal key
\* keep their order
RECURSIVE SortedDesc(_, _)
SortedDesc(seq, keyOf) ==
    IF seq = <<>> THEN <<>>
    ELSE InsertDesc(SortedDesc(SubSeq(seq, 1, Len(seq) - 1), keyOf),
                    seq[Len(seq)], keyOf)

\* dater.get(emoji, 0) after "for commit in HISTORY: dater[commit["emoji"]] =
\* commit["timestamp"]": the timestamp of the emoji's last entry
Dater(entries, emoji) ==
    LET at == {i \in DOMAIN entries : entries[i].emoji = emoji}
    IN  IF at = {} THEN 0
        ELSE entries[CHOOSE i \in at : \A j \in at : j <= i].timestamp

\* history.sort_emojis_by_timestamp raises: the loop reads commit["emoji"] and
\* commit["timestamp"] of whatever iterating HISTORY gives
SortRaises(h) == h.kind \in {"not_a_list", "lacks_keys"}

\* history.sort_emojis_by_timestamp: constants.EMOJIS after the sort
SortEmojisByTimestamp(h, emojis) ==
    SortedDesc(emojis, [e \in {emojis[i] : i \in DOMAIN emojis} |-> Dater(h.entries, e)])

\* gitmojis_setup raises
SetupRaises ==
    cfg.enable_history /\ SortRaises(LoadHistory(shape, history))

\* history.gitmojis_setup: the emoji list rebuilt, and with the history enabled
\* load_history and sort_emojis_by_timestamp
GitmojisSetup ==
    /\ shape' = shape
    /\ IF ~cfg.enable_history
       THEN /\ HISTORY' = HISTORY
            /\ EMOJIS' = EmojiList
       ELSE /\ HISTORY' = LoadHistory(shape, history)
            /\ EMOJIS' = IF SetupRaises THEN EmojiList
                         ELSE SortEmojisByTimestamp(LoadHistory(shape, history), EmojiList)

\* constants.HISTORY.append raises: only a list has append
SaveRaises(h) == h.kind \notin {"list", "lacks_keys"}

\* history.save_to_history: constants.HISTORY after the append
SaveToHistory(h, commit_dict, now) ==
    [h EXCEPT !.entries = Append(@, HistoryEntry(commit_dict, now))]

(***************************************************************************)
(* prompt.GMPCompleter.                                                    *)
(***************************************************************************)
\* matched[:10]
MaxCompletions == 10

\* str.lower()
LowerStr(s) == [i \in DOMAIN s |-> Lower(s[i])]

\* str.startswith
StartsWith(s, prefix) ==
    Len(prefix) <= Len(s) /\ SubSeq(s, 1, Len(prefix)) = prefix

\* the keys of self.candidates in the order of the dict: each value of the
\* field once, at the place of its first entry
RECURSIVE CandidateKeys(_, _)
CandidateKeys(entries, field) ==
    IF entries = <<>> THEN <<>>
    ELSE LET before == CandidateKeys(SubSeq(entries, 1, Len(entries) - 1), field)
             value == entries[Len(entries)][field]
         IN  IF \E i \in DOMAIN before : before[i] = value
             THEN before
             ELSE Append(before, value)

\* self.candidates[value]: the greatest timestamp of the entries with the value
CandidateStamp(entries, field, value) ==
    LET stamps == {entries[i].timestamp :
                     i \in {j \in DOMAIN entries : entries[j][field] = value}}
    IN  CHOOSE t \in stamps : \A u \in stamps : u <= t

\* "k.lower().startswith(document.text.lower())"
Matches(value, text) == StartsWith(LowerStr(value), LowerStr(text))

\* the first n elements of a sequence: seq[:n]
Take(seq, n) == SubSeq(seq, 1, IF Len(seq) < n THEN Len(seq) ELSE n)

\* a completer that cuts the candidates to ten before it filters and sorts them
GetCompletionsCapFirst(entries, field, text) ==
    LET keys == Take(CandidateKeys(entries, field), MaxCompletions)
        stamp == [v \in {keys[i] : i \in DOMAIN keys} |->
                    CandidateStamp(entries, field, v)]
    IN  SortedDesc(SelectSeq(keys, LAMBDA v : Matches(v, text)), stamp)

\* GMPCompleter(key).get_completions(document): the texts of the completions
\* yielded, in their order
GetCompletions(entries, field, text) ==
    LET keys == CandidateKeys(entries, field)
        stamp == [v \in {keys[i] : i \in DOMAIN keys} |->
                    CandidateStamp(entries, field, v)]
        matched == SortedDesc(SelectSeq(keys, LAMBDA v : Matches(v, text)), stamp)
    IN  Take(matched, MaxCompletions)

\* the branch has one more commit: it is one more commit ahead of every remote
OneMoreCommit(d) == [r \in DOMAIN d |-> [d[r] EXCEPT !.ahead = @ + 1]]

\* whether the commit is created: only a signed commit runs an external program
CommitResults == IF flags.sign THEN {"created", "failed"} ELSE {"created"}

\* a command that pushes when --remote was given, too
PushesWhenRemoteGiven(push, remote_cli_args) == push \/ remote_cli_args # <<>>

\* "if push: push_cli(repo, remote)" after the commit
PushesAfterCommit(push, remote_cli_args) == push

\* a command that goes on to the commit whatever --dry says
NeverPreviews(dry) == FALSE

\* "if dry:" after the message is made: print it and raise typer.Exit(0)
Previews(dry) == dry

\* cli.commit with the wizard's record: message, dry-run exit, staging, history,
\* commit, and on to the push
CommitRecord ==
    /\ pc = "record"
    /\ ev' = [kind |-> "record", at |-> "commit", input |-> "-"]
    /\ LET commit_message == MessageFromCommitDict(wiz) IN
       IF Previews(flags.dry)
       THEN /\ printed' = commit_message
            /\ Exit("exit0")
            /\ UNCHANGED <<tree, history, commits, clock, calls, div, histVars>>
       ELSE IF cfg.enable_history /\ SaveRaises(HISTORY)
       THEN /\ tree' = Stage(tree, to_add)
            /\ Exit("error")
            /\ UNCHANGED <<history, commits, clock, calls, div, printed, histVars>>
       ELSE \E now \in {clock, clock + 1}, result \in CommitResults :
            /\ clock' = now
            /\ HISTORY' = IF cfg.enable_history
                          THEN SaveToHistory(HISTORY, wiz, now)
                          ELSE HISTORY
            /\ history' = IF cfg.enable_history THEN HISTORY'.entries ELSE history
            /\ shape' = IF cfg.enable_history THEN HISTORY'.kind ELSE shape
            /\ EMOJIS' = EMOJIS
            /\ printed' = printed
            /\ IF result = "created"
               THEN /\ tree' = Committed(Stage(tree, to_add))
                    /\ commits' = Append(commits, commit_message)
                    /\ div' = OneMoreCommit(div)
                    /\ IF PushesAfterCommit(flags.push, cli)
                       THEN /\ pc' = "remote"
                            /\ calls' = <<"push">>
                            /\ outcome' = outcome
                       ELSE /\ AgainOrDone
                            /\ calls' = calls
               ELSE /\ tree' = Stage(tree, to_add)
                    /\ commits' = commits
                    /\ div' = div
                    /\ calls' = calls
                    /\ Exit("error")
    /\ UNCHANGED <<status, to_add>>
    /\ UNCHANGED wizVars
    /\ UNCHANGED <<remotes, cli, refs, rpc, selected_remotes, remote_upstreams, idx, log>>
    /\ UNCHANGED <<fmtVars, cmdVars>>

(***************************************************************************)
(* cli.push_cli, cli.pull_cli, git.has_upstreams, git.fetch_all.           *)
(***************************************************************************)
RemoteNames == <<"origin", "fork", "upstream">>

\* a name given with --remote that no configured remote has
Ghost == "ghost"

ToSet(seq) == {seq[i] : i \in DOMAIN seq}

\* the sequences of distinct elements of S, of length at most n
DistinctSeqs(S, n) ==
    UNION {{q \in [1..k -> S] : \A i, j \in 1..k : q[i] = q[j] => i = j} : k \in 0..n}

RemotePool == {RemoteNames[i] : i \in 1..MaxRemotes}

\* one line of the log
Event(op, remote, res) == [op |-> op, remote |-> remote, res |-> res]

\* how a git operation on a remote may end: done, git.exc.GitCommandError, or
\* any other exception
GitResults == {"ok", "git_error", "other_error"}

\* the running call returns to its caller; after the last call cli.commit goes
\* on after its push, and should_commit_again calls itself
Return ==
    /\ calls' = Tail(calls)
    /\ rpc' = "select"
    /\ idx' = 0
    /\ IF Tail(calls) = <<>> THEN AgainOrDone ELSE UNCHANGED <<pc, outcome>>

\* an empty selection that ends the call as if nothing was to be done
AbortIgnored == Return

\* raise typer.Abort()
Abort ==
    /\ Exit("abort")
    /\ UNCHANGED <<calls, rpc, idx>>

\* a selection that prompts whenever no name was given
PromptsWhenNoName(rs, remote_cli_args) == remote_cli_args = <<>>

\* whether push_cli and pull_cli show choose_remote_prompt
PromptsForRemotes(rs, remote_cli_args) == Len(rs) > 1 /\ remote_cli_args = <<>>

\* a selection that keeps only the names of configured remotes
SelectedValidated(rs, remote_cli_args) ==
    IF Len(rs) > 1 THEN ToSet(remote_cli_args) \cap ToSet(rs) ELSE {rs[1]}

\* selected_remotes of push_cli and pull_cli when no prompt is shown
SelectedWithoutPrompt(rs, remote_cli_args) ==
    IF Len(rs) > 1 THEN ToSet(remote_cli_args) ELSE {rs[1]}

\* the selection of remotes, of push_cli (then on to the fetch) and of pull_cli
\* (then on to the loop)
SelectRemotes(call, next) ==
    /\ pc = "remote" /\ rpc = "select" /\ Head(calls) = call
    /\ ev' = [kind |-> "select", at |-> call, input |-> "-"]
    /\ IF Len(remotes) = 0
       THEN /\ Return
            /\ UNCHANGED <<selected_remotes, log>>
       ELSE IF ~PromptsForRemotes(remotes, cli)
            THEN /\ selected_remotes' = SelectedWithoutPrompt(remotes, cli)
                 /\ rpc' = next /\ idx' = 1
                 /\ UNCHANGED <<pc, outcome, calls, log>>
            ELSE \E chosen \in SUBSET ToSet(remotes) :
                 /\ log' = Append(log, Event("choose_remote_prompt", "-", "-"))
                 /\ selected_remotes' = chosen
                 /\ IF chosen = {}
                    THEN Abort
                    ELSE /\ rpc' = next /\ idx' = 1
                         /\ UNCHANGED <<pc, outcome, calls>>
    /\ UNCHANGED <<remotes, cli, refs, div, remote_upstreams>>
    /\ UNCHANGED <<fmtVars, cmdVars, histVars, repoVars, wizVars>>

PushSelect == SelectRemotes("push", "fetch")

PullSelect == SelectRemotes("pull", "remote")

\* the log of fetch_all: the remotes fetched, in order, up to the one that fails
RECURSIVE FetchLog(_, _, _)
FetchLog(rs, i, failAt) ==
    IF i > Len(rs) \/ (failAt # 0 /\ i > failAt) THEN <<>>
    ELSE <<Event("fetch", rs[i], IF i = failAt THEN "git_error" ELSE "ok")>>
         \o FetchLog(rs, i + 1, failAt)

\* a has_upstreams that keeps the dict of its first call
HasUpstreamsCached(requested, tracking) ==
    IF DOMAIN remote_upstreams # {}
    THEN remote_upstreams
    ELSE [r \in requested \cup tracking |-> r \in tracking]

\* the dict has_upstreams returns: every requested name, and every remote
\* with a ref, once the refs are tracking
HasUpstreams(requested, tracking) ==
    [r \in requested \cup tracking |-> r \in tracking]

\* has_upstreams called by push_cli: fetch_all, then the refs are read. A
\* fetch that fails raises, and nothing in push_cli or cli.commit catches it.
PushFetch ==
    /\ pc = "remote" /\ rpc = "fetch" /\ Head(calls) = "push"
    /\ ev' = [kind |-> "fetch", at |-> "push", input |-> "-"]
    /\ \E failAt \in 0..Len(remotes) :
        LET fetched == IF failAt = 0 THEN ToSet(remotes)
                       ELSE {remotes[i] : i \in 1..(failAt - 1)}
        IN  \E found \in SUBSET (fetched \ refs) :
            /\ log' = log \o FetchLog(remotes, 1, failAt)
            /\ refs' = refs \cup found
            /\ IF failAt = 0
               THEN /\ remote_upstreams' = HasUpstreams(selected_remotes, refs')
                    /\ rpc' = "remote"
                    /\ UNCHANGED <<pc, outcome>>
               ELSE /\ remote_upstreams' = remote_upstreams
                    /\ rpc' = rpc
                    /\ Exit("error")
    /\ UNCHANGED <<remotes, cli, div, calls, selected_remotes, idx>>
    /\ UNCHANGED <<fmtVars, cmdVars, histVars, repoVars, wizVars>>

\* CatchRemoteException.__exit__ and the line after the with block: the lines
\* printed for a git operation that ended with res
AfterGit(done, remote, res) ==
    IF res = "git_error"
    THEN <<Event("error", remote, "could not push")>>
    ELSE <<Event(done, remote, "-")>>

\* the next remote of the loop, or the return of the call
NextRemote ==
    IF idx < Len(remotes)
    THEN /\ idx' = idx + 1
         /\ UNCHANGED <<pc, outcome, calls, rpc>>
    ELSE Return

\* a context manager that lets through what is no GitCommandError
SwallowsGitErrorOnly(res) == res # "other_error"

\* CatchRemoteException.__exit__ returns True: whatever was raised in the with
\* block is swallowed
Swallows(res) == TRUE

\* after the with block: on with the loop, unless the exception got through
AfterWith(res) ==
    IF Swallows(res)
    THEN NextRemote
    ELSE Exit("error") /\ UNCHANGED <<calls, rpc, idx>>

\* a loop over the given names first
LoopSelectionFirst(rs, remote_cli_args) ==
    SelectSeq(remote_cli_args, LAMBDA x : x \in ToSet(rs))
        \o SelectSeq(rs, LAMBDA x : x \notin ToSet(remote_cli_args))

\* "for remote in repo.remotes": the order in which the loops visit the remotes
LoopRemotes(rs, remote_cli_args) == rs

\* a loop that looks the remote up in the dict of has_upstreams
InSelectionByUpstreams(remote, selection) == remote \in DOMAIN remote_upstreams

\* "if remote.name in selected_remotes"
InSelection(remote, selection) == remote \in selection

\* a push that succeeded: the remote's branch is the local branch
AfterPush(d, remote) == [d EXCEPT ![remote] = [ahead |-> 0, behind |-> 0]]

\* a pull that succeeded: the local branch holds the commits of the remote's
AfterPull(d, remote) == [d EXCEPT ![remote].behind = 0]

\* a push that never asks
NeverNeedsUpstream(upstreams, remote) == FALSE

\* whether push_cli asks to create the upstream branch of the remote
NeedsUpstream(upstreams, remote) == ~upstreams[remote]

\* one iteration of push_cli's loop over repo.remotes
PushRemote ==
    /\ pc = "remote" /\ rpc = "remote" /\ Head(calls) = "push"
    /\ ev' = [kind |-> "remote", at |-> "push", input |-> "-"]
    /\ LET remote == LoopRemotes(remotes, cli)[idx] IN
       IF ~InSelection(remote, selected_remotes)
       THEN /\ NextRemote
            /\ UNCHANGED <<refs, div, log>>
       ELSE IF NeedsUpstream(remote_upstreams, remote)
       THEN \E set_upstream \in BOOLEAN :
            LET asked == Event("set_upstream_prompt", remote,
                               IF set_upstream THEN "yes" ELSE "no")
            IN  IF ~set_upstream
                THEN /\ log' = log \o <<asked, Event("skip", remote, "-")>>
                     /\ refs' = refs
                     /\ div' = div
                     /\ NextRemote
                ELSE \E res \in GitResults :
                     /\ log' = log \o <<asked, Event("push_set_upstream", remote, res)>>
                                   \o AfterGit("pushed_upstream_created", remote, res)
                     /\ refs' = IF res = "ok" THEN refs \cup {remote} ELSE refs
                     /\ div' = IF res = "ok" THEN AfterPush(div, remote) ELSE div
                     /\ AfterWith(res)
       ELSE \E res \in GitResults :
            /\ log' = log \o <<Event("push", remote, res)>>
                          \o AfterGit("pushed", remote, res)
            /\ refs' = refs
            /\ div' = IF res = "ok" THEN AfterPush(div, remote) ELSE div
            /\ AfterWith(res)
    /\ UNCHANGED <<remotes, cli, selected_remotes, remote_upstreams>>
    /\ UNCHANGED <<fmtVars, cmdVars, histVars, repoVars, wizVars>>

\* one iteration of pull_cli's loop over repo.remotes
PullRemote ==
    /\ pc = "remote" /\ rpc = "remote" /\ Head(calls) = "pull"
    /\ ev' = [kind |-> "remote", at |-> "pull", input |-> "-"]
    /\ LET remote == LoopRemotes(remotes, cli)[idx] IN
       IF ~InSelection(remote, selected_remotes)
       THEN /\ NextRemote
            /\ UNCHANGED <<div, log>>
       ELSE \E res \in GitResults :
            /\ log' = log \o <<Event("pull", remote, res)>>
                          \o AfterGit("pulled", remote, res)
            /\ div' = IF res = "ok" THEN AfterPull(div, remote) ELSE div
            /\ AfterWith(res)
    /\ UNCHANGED <<remotes, cli, refs, selected_remotes, remote_upstreams>>
    /\ UNCHANGED <<fmtVars, cmdVars, histVars, repoVars, wizVars>>

(***************************************************************************)
(* git.commits_behind, git.commits_ahead, git.format_remotes_diff and the   *)
(* choices of cli.should_commit_again.                                     *)
(***************************************************************************)
\* _sentinels["no-branch"]
NoBranch == [sentinel |-> "no-branch"]

\* bool(v) of a value of the dict of commits_behind: a number, or the sentinel
Truthy(v) == IF v = NoBranch THEN TRUE ELSE v.count # 0

\* commits_behind: per remote the number of commits of <remote>/<branch> the
\* branch has not, or the sentinel when there is no such ref ("bad revision")
CommitsBehind(rs, tracking, d) ==
    [r \in ToSet(rs) |-> IF r \in tracking THEN [count |-> d[r].behind] ELSE NoBranch]

\* commits_ahead: no key for a remote without the ref
CommitsAhead(rs, tracking, d) ==
    [r \in ToSet(rs) \cap tracking |-> d[r].ahead]

\* sum([f[k] for k in S])
RECURSIVE SumOver(_, _)
SumOver(f, S) ==
    IF S = {} THEN 0
    ELSE LET k == CHOOSE x \in S : TRUE IN f[k] + SumOver(f, S \ {k})

\* one line of the banner
Line(text, remote, n) == [text |-> text, remote |-> remote, n |-> n]

\* a banner shown for the counts alone
NothingToShowCountsOnly(total, no_branch) == total = 0

\* the test of format_remotes_diff for returning the empty string
NothingToShow(total, no_branch) == total = 0 /\ no_branch = {}

\* a body of the loop that writes the ahead line only when there is no behind line
RemoteLinesOnePerRemote(r, behind, ahead) ==
    IF Truthy(behind[r])
    THEN IF behind[r] = NoBranch
         THEN <<Line("does not have a branch", r, 0)>>
         ELSE <<Line("local is behind", r, behind[r].count)>>
    ELSE IF ahead[r] # 0 THEN <<Line("local is ahead of", r, ahead[r])>> ELSE <<>>

\* the body of the loop of format_remotes_diff: the lines written for a remote
RemoteLines(r, behind, ahead) ==
    LET aheadLine == IF ahead[r] # 0
                     THEN <<Line("local is ahead of", r, ahead[r])>>
                     ELSE <<>>
    IN  IF Truthy(behind[r])
        THEN IF behind[r] = NoBranch
             THEN <<Line("does not have a branch", r, 0)>>
             ELSE <<Line("local is behind", r, behind[r].count)>> \o aheadLine
        ELSE aheadLine

\* "for r in repo.remotes" of format_remotes_diff
RECURSIVE DiffLines(_, _, _, _)
DiffLines(rs, behind, ahead, i) ==
    IF i > Len(rs) THEN <<>>
    ELSE RemoteLines(rs[i], behind, ahead) \o DiffLines(rs, behind, ahead, i + 1)

\* format_remotes_diff: the banner, a string, as its sequence of lines
FormatRemotesDiff(rs, tracking, d) ==
    LET behind == CommitsBehind(rs, tracking, d)
        ahead == CommitsAhead(rs, tracking, d)
        no_branch == {k \in DOMAIN behind : behind[k] = NoBranch}
        total == SumOver([k \in DOMAIN behind \ no_branch |-> behind[k].count],
                         DOMAIN behind \ no_branch)
                 + SumOver(ahead, DOMAIN ahead)
    IN  IF NothingToShow(total, no_branch)
        THEN <<>>
        ELSE <<Line("Remotes diff:", "-", 0)>> \o DiffLines(rs, behind, ahead, 1)

\* '"does not have a branch" in remotes_diff'
MentionsNoBranch(remotes_diff) ==
    \E i \in DOMAIN remotes_diff : remotes_diff[i].text = "does not have a branch"

\* choices that offer the sync whenever there is a banner
WhatNowChoicesSyncWithBanner(remotes_diff) ==
    IF remotes_diff # <<>> THEN {"c", "p", "s", "q"} ELSE {"c", "q"}

\* the choices should_commit_again hands to what_now_prompt
WhatNowChoices(remotes_diff) ==
    {"c"}
    \cup (IF remotes_diff # <<>>
          THEN {"p"} \cup (IF ~MentionsNoBranch(remotes_diff) THEN {"s"} ELSE {})
          ELSE {})
    \cup {"q"}

\* a sync that pushes before it pulls
CallsOfPushFirst(choice) ==
    IF choice = "s" THEN <<"push", "pull">> ELSE <<"push">>

\* 'if choice == "s": pull_cli(repo, remote)' then 'push_cli(repo, remote)'
CallsOf(choice) ==
    IF choice = "s" THEN <<"pull", "push">> ELSE <<"push">>

\* cli.should_commit_again: the banner, the choices, the answer to
\* what_now_prompt, and what cli.commit does with the value returned
ShouldCommitAgain ==
    /\ pc = "again"
    /\ GitmojisSetup
    /\ IF SetupRaises
       THEN /\ Exit("error")
            /\ ev' = [kind |-> "setup", at |-> "should_commit_again", input |-> "-"]
            /\ UNCHANGED <<banner, offered, rounds, calls>>
       ELSE
       LET remotes_diff == FormatRemotesDiff(remotes, refs, div)
           choices == WhatNowChoices(remotes_diff)
       IN  /\ banner' = remotes_diff
           /\ offered' = choices
           /\ \E choice \in choices :
                /\ ev' = [kind |-> "what_now", at |-> "should_commit_again",
                          input |-> choice]
                /\ IF remotes_diff # <<>> /\ choice \in {"p", "s"}
                   THEN /\ rounds < MaxRounds
                        /\ rounds' = rounds + 1
                        /\ calls' = CallsOf(choice)
                        /\ pc' = "remote"
                        /\ outcome' = outcome
                   ELSE /\ IF choice # "q"
                           THEN pc' = "loop" /\ outcome' = outcome
                           ELSE Exit("done")
                        /\ UNCHANGED <<rounds, calls>>
    /\ UNCHANGED <<rec, out, capOut, key, document, completions>>
    /\ UNCHANGED <<flags, cfg, repoValid>>
    /\ UNCHANGED <<repoVars, wizVars>>
    /\ UNCHANGED <<remotes, cli, refs, div, rpc, selected_remotes, remote_upstreams,
                   idx, log>>

\* the repositories and --remote lists of the specification of the remotes
RemoteConfigs ==
    [remotes : DistinctSeqs(RemotePool, MaxRemotes),
     cli : DistinctSeqs(RemotePool \cup {Ghost}, MaxCliArgs),
     refs : SUBSET RemotePool]

\* the repositories and --remote lists of the specification of the command
FewRemoteConfigs ==
    { [remotes |-> <<>>, cli |-> <<>>, refs |-> {}],
      [remotes |-> <<"origin", "fork">>, cli |-> <<>>, refs |-> {"origin"}],
      [remotes |-> <<"origin", "fork">>, cli |-> <<"fork">>, refs |-> {"origin"}] }

\* the branch neither ahead of nor behind any remote
InSync(rs) == [r \in ToSet(rs) |-> [ahead |-> 0, behind |-> 0]]

\* no call of push_cli or pull_cli is running
InitRemotes(configs) ==
    /\ \E c \in configs :
        /\ remotes = c.remotes
        /\ cli = c.cli
        /\ refs = c.refs \cap ToSet(c.remotes)
        /\ div = InSync(c.remotes)
    /\ calls = <<>>
    /\ rpc = "select"
    /\ selected_remotes = {}
    /\ remote_upstreams = <<>>
    /\ idx = 0
    /\ log = <<>>

Configs ==
    [skip_scope : BOOLEAN, skip_message : BOOLEAN, capitalize_title : BOOLEAN,
     enable_history : BOOLEAN]

\* the options of the commit command, run once (without --keep-alive)
Flags == [dry : BOOLEAN, add : BOOLEAN, push : BOOLEAN, sign : BOOLEAN, keep : {FALSE}]

\* no history file yet, and gitmojis_setup run by the import of cli
IdleHistory ==
    /\ shape = "absent"
    /\ HISTORY = Value("list", <<>>)
    /\ EMOJIS = EmojiList

\* the pure functions are not under test in the command's specifications
IdleFormat ==
    /\ rec = FreshState
    /\ out = NoValue
    /\ capOut = NoValue
    /\ banner = NoValue
    /\ offered = {}
    /\ key = "title"
    /\ document = <<>>
    /\ completions = NotCalled

\* the command's state when it is started
InitCommand ==
    /\ flags \in Flags
    /\ cfg \in Configs
    /\ repoValid \in BOOLEAN
    /\ rounds = 0
    /\ tree \in (IF repoValid THEN Trees ELSE {NoFiles})
    /\ status = StatusNotRead
    /\ to_add = {}
    /\ history = <<>>
    /\ IdleHistory
    /\ commits = <<>>
    /\ printed = NoValue
    /\ clock = 1
    /\ pc = "loop"
    /\ outcome = "running"
    /\ wpc = "AskEmoji"
    /\ wiz = FreshState
    /\ typed = FreshState
    /\ recoverOf = "none"
    /\ ev = [kind |-> "start", at |-> "commit", input |-> "-"]
    /\ titleCancelled = FALSE
    /\ restarts = 0

Init == IdleFormat /\ InitCommand /\ InitRemotes(FewRemoteConfigs)

Next ==
    \/ CommitLoopTop
    \/ GitAddPrompt
    \/ CancelAdd
    \/ AskEmoji
    \/ AskScope(FewScopes)
    \/ AskTitle(FewTitles)
    \/ AskMessage(FewMessages)
    \/ CancelWizard
    \/ RecoveryPrompt
    \/ CancelRecovery
    \/ CommitRecord
    \/ PushSelect
    \/ PushFetch
    \/ PushRemote

Spec == Init /\ [][Next]_vars

\* the command is not running in the specification of the pure functions
IdleCommand ==
    /\ flags = [dry |-> FALSE, add |-> FALSE, push |-> FALSE, sign |-> FALSE,
                keep |-> FALSE]
    /\ cfg = [skip_scope |-> FALSE, skip_message |-> FALSE,
              capitalize_title |-> FALSE, enable_history |-> FALSE]
    /\ repoValid = FALSE
    /\ rounds = 0
    /\ tree = NoFiles
    /\ status = StatusNotRead
    /\ to_add = {}
    /\ history = <<>>
    /\ IdleHistory
    /\ commits = <<>>
    /\ printed = NoValue
    /\ clock = 1
    /\ pc = "format"
    /\ outcome = "running"
    /\ wpc = "AskEmoji"
    /\ wiz = FreshState
    /\ typed = FreshState
    /\ recoverOf = "none"
    /\ ev = [kind |-> "start", at |-> "format", input |-> "-"]
    /\ titleCancelled = FALSE
    /\ restarts = 0

(***************************************************************************)
(* The pure functions applied to every record of bounded strings.          *)
(***************************************************************************)
InitFormat ==
    /\ rec \in [emoji : Emojis, scope : StringsUpTo(MaxLen),
                title : StringsUpTo(MaxLen), message : StringsUpTo(MaxLen)]
    /\ out = NoValue
    /\ capOut = NoValue
    /\ banner = NoValue
    /\ offered = {}
    /\ key = "title"
    /\ document = <<>>
    /\ completions = NotCalled
    /\ IdleCommand
    /\ InitRemotes({[remotes |-> <<>>, cli |-> <<>>, refs |-> {}]})

FormatMessage ==
    /\ out = NoValue
    /\ out' = MessageFromCommitDict(rec)
    /\ UNCHANGED <<rec, capOut, banner, offered, key, document, completions>>
    /\ UNCHANGED <<cmdVars, histVars, repoVars, wizVars, remVars, pc, outcome, ev>>

CapitalizeTitle ==
    /\ capOut = NoValue
    /\ capOut' = SafeCapitalize(rec.title)
    /\ UNCHANGED <<rec, out, banner, offered, key, document, completions>>
    /\ UNCHANGED <<cmdVars, histVars, repoVars, wizVars, remVars, pc, outcome, ev>>

NextFormat == FormatMessage \/ CapitalizeTitle

SpecFormat == InitFormat /\ [][NextFormat]_vars

(***************************************************************************)
(* push_cli and pull_cli as cli.commit and cli.should_commit_again call    *)
(* them: a push, a pull, or a pull then a push (sync).                     *)
(***************************************************************************)
RemoteCalls == {<<"push">>, <<"pull">>, <<"pull", "push">>}

InitRemote ==
    /\ IdleFormat
    /\ flags = [dry |-> FALSE, add |-> FALSE, push |-> TRUE, sign |-> FALSE,
                keep |-> FALSE]
    /\ cfg = [skip_scope |-> FALSE, skip_message |-> FALSE,
              capitalize_title |-> FALSE, enable_history |-> FALSE]
    /\ repoValid = TRUE
    /\ rounds = 0
    /\ tree = NoFiles
    /\ status = StatusNotRead
    /\ to_add = {}
    /\ history = <<>>
    /\ IdleHistory
    /\ commits = <<>>
    /\ printed = NoValue
    /\ clock = 1
    /\ pc = "remote"
    /\ outcome = "running"
    /\ wpc = "Done"
    /\ wiz = FreshState
    /\ typed = FreshState
    /\ recoverOf = "none"
    /\ ev = [kind |-> "start", at |-> "remote", input |-> "-"]
    /\ titleCancelled = FALSE
    /\ restarts = 0
    /\ \E c \in RemoteConfigs :
        /\ remotes = c.remotes
        /\ cli = c.cli
        /\ refs = c.refs \cap ToSet(c.remotes)
        /\ div = InSync(c.remotes)
    /\ calls \in RemoteCalls
    /\ rpc = "select"
    /\ selected_remotes = {}
    /\ remote_upstreams = <<>>
    /\ idx = 0
    /\ log = <<>>

NextRemoteCalls == PushSelect \/ PushFetch \/ PushRemote \/ PullSelect \/ PullRemote

SpecRemote == InitRemote /\ [][NextRemoteCalls]_vars

(***************************************************************************)
(* format_remotes_diff and the choices of should_commit_again applied to   *)
(* every repository of bounded remotes and counts.                         *)
(***************************************************************************)
Counts == [ahead : 0..MaxCount, behind : 0..MaxCount]

InitDiff ==
    /\ IdleFormat
    /\ IdleCommand
    /\ remotes \in DistinctSeqs(RemotePool, MaxRemotes)
    /\ cli = <<>>
    /\ refs \in SUBSET ToSet(remotes)
    /\ div \in [ToSet(remotes) -> Counts]
    /\ calls = <<>>
    /\ rpc = "select"
    /\ selected_remotes = {}
    /\ remote_upstreams = <<>>
    /\ idx = 0
    /\ log = <<>>

\* remotes_diff = format_remotes_diff(repo)
FormatDiff ==
    /\ banner = NoValue
    /\ banner' = FormatRemotesDiff(remotes, refs, div)
    /\ UNCHANGED <<rec, out, capOut, offered, key, document, completions>>
    /\ UNCHANGED <<cmdVars, histVars, repoVars, wizVars, remVars, pc, outcome, ev>>

\* the choices built from remotes_diff
OfferChoices ==
    /\ banner # NoValue
    /\ offered = {}
    /\ offered' = WhatNowChoices(banner)
    /\ UNCHANGED <<rec, out, capOut, banner, key, document, completions>>
    /\ UNCHANGED <<cmdVars, histVars, repoVars, wizVars, remVars, pc, outcome, ev>>

NextDiff == FormatDiff \/ OfferChoices

SpecDiff == InitDiff /\ [][NextDiff]_vars

(***************************************************************************)
(* The commit command with and without --keep-alive: the loop, the "commit *)
(* again" prompt and the push and sync it starts. The wizard asks for the  *)
(* emoji and the title only, no prompt is interrupted, and --push is not   *)
(* given: every push is one chosen in the prompt.                          *)
(***************************************************************************)
AgainFlags ==
    [dry : {FALSE}, add : BOOLEAN, push : {FALSE}, sign : {FALSE}, keep : BOOLEAN]

AgainTitles == {<<"a">>}

\* the repositories of the specification: no remote; one remote in sync; one
\* remote behind; a remote ahead and behind beside one without the branch, the
\* latter named with --remote
AgainRemoteConfigs ==
    { [remotes |-> <<>>, cli |-> <<>>, refs |-> {}, div |-> <<>>],
      [remotes |-> <<"origin">>, cli |-> <<>>, refs |-> {"origin"},
       div |-> [r \in {"origin"} |-> [ahead |-> 0, behind |-> 0]]],
      [remotes |-> <<"origin">>, cli |-> <<>>, refs |-> {"origin"},
       div |-> [r \in {"origin"} |-> [ahead |-> 0, behind |-> 1]]],
      [remotes |-> <<"origin", "fork">>, cli |-> <<"fork">>, refs |-> {"origin"},
       div |-> [r \in {"origin", "fork"} |-> [ahead |-> 1, behind |-> 1]]] }

InitAgain ==
    /\ IdleFormat
    /\ flags \in AgainFlags
    /\ cfg = [skip_scope |-> TRUE, skip_message |-> TRUE,
              capitalize_title |-> FALSE, enable_history |-> FALSE]
    /\ repoValid = TRUE
    /\ rounds = 0
    /\ tree \in Trees
    /\ status = StatusNotRead
    /\ to_add = {}
    /\ history = <<>>
    /\ IdleHistory
    /\ commits = <<>>
    /\ printed = NoValue
    /\ clock = 1
    /\ pc = "loop"
    /\ outcome = "running"
    /\ wpc = "AskEmoji"
    /\ wiz = FreshState
    /\ typed = FreshState
    /\ recoverOf = "none"
    /\ ev = [kind |-> "start", at |-> "commit", input |-> "-"]
    /\ titleCancelled = FALSE
    /\ restarts = 0
    /\ \E c \in AgainRemoteConfigs :
        /\ remotes = c.remotes
        /\ refs = c.refs
        /\ div = c.div
        /\ cli = c.cli
    /\ calls = <<>>
    /\ rpc = "select"
    /\ selected_remotes = {}
    /\ remote_upstreams = <<>>
    /\ idx = 0
    /\ log = <<>>

NextAgain ==
    \/ CommitLoopTop
    \/ GitAddPrompt
    \/ AskEmoji
    \/ AskTitle(AgainTitles)
    \/ CommitRecord
    \/ ShouldCommitAgain
    \/ PullSelect
    \/ PullRemote
    \/ PushSelect
    \/ PushFetch
    \/ PushRemote

SpecAgain == InitAgain /\ [][NextAgain]_vars

(***************************************************************************)
(* The "commit again" prompt of a command run with --keep-alive, shown     *)
(* after a commit on a repository of one or two remotes that all have the  *)
(* branch and commits the local branch has not: the push and the sync      *)
(* chosen in it.                                                           *)
(***************************************************************************)
\* the names given with --remote in the specification
SyncCliArgs == {<<>>, <<"fork">>, <<"fork", "origin">>}

InitSync ==
    /\ IdleFormat
    /\ flags = [dry |-> FALSE, add |-> FALSE, push |-> FALSE, sign |-> FALSE,
                keep |-> TRUE]
    /\ cfg = [skip_scope |-> TRUE, skip_message |-> TRUE,
              capitalize_title |-> FALSE, enable_history |-> FALSE]
    /\ repoValid = TRUE
    /\ rounds = 0
    /\ tree = NoFiles
    /\ status = GetFilesStatus([NoFiles EXCEPT !.staged = {"a.txt"}])
    /\ to_add = {}
    /\ history = <<>>
    /\ IdleHistory
    /\ commits = <<<<":art:", " ", "a">>>>
    /\ printed = NoValue
    /\ clock = 1
    /\ pc = "again"
    /\ outcome = "running"
    /\ wpc = "Done"
    /\ wiz = [emoji |-> <<":art:">>, scope |-> <<>>, title |-> <<"a">>,
              message |-> <<>>]
    /\ typed = [emoji |-> <<":art:">>, scope |-> NoValue, title |-> <<"a">>,
                message |-> NoValue]
    /\ recoverOf = "none"
    /\ ev = [kind |-> "record", at |-> "commit", input |-> "-"]
    /\ titleCancelled = FALSE
    /\ restarts = 0
    /\ remotes \in {<<"origin">>, <<"origin", "fork">>}
    /\ cli \in SyncCliArgs
    /\ refs = ToSet(remotes)
    /\ \E behind \in 1..MaxCount :
         div = [r \in ToSet(remotes) |-> [ahead |-> 0, behind |-> behind]]
    /\ calls = <<>>
    /\ rpc = "select"
    /\ selected_remotes = {}
    /\ remote_upstreams = <<>>
    /\ idx = 0
    /\ log = <<>>

NextSync ==
    \/ ShouldCommitAgain
    \/ PullSelect
    \/ PullRemote
    \/ PushSelect
    \/ PushFetch
    \/ PushRemote

SpecSync == InitSync /\ [][NextSync]_vars

(***************************************************************************)
(* The commit command from the import of cli on, with a history file of    *)
(* every shape: gitmojis_setup at the import and in the "commit again"     *)
(* prompt, save_to_history at each commit. No remote is configured, the    *)
(* wizard asks for the emoji and the title only, no prompt is interrupted. *)
(***************************************************************************)
\* the entries a history file may hold
StoredEntries ==
    {HistoryEntry([emoji |-> e, scope |-> <<>>, title |-> <<"A">>, message |-> <<>>], t) :
        e \in Emojis, t \in 0..1}

\* the entries of the history files of the specification
StoredHistories == UNION {[1..n -> StoredEntries] : n \in 0..MaxStored}

\* the shapes of a file that holds entries: a JSON list, or a JSON list broken
\* by a syntax error
ShapesWithEntries == {"list", "unparseable"}

InitHistory ==
    /\ IdleFormat
    /\ flags \in [dry : {FALSE}, add : {FALSE}, push : {FALSE}, sign : {FALSE},
                   keep : BOOLEAN]
    /\ cfg \in [skip_scope : {TRUE}, skip_message : {TRUE},
                 capitalize_title : {FALSE}, enable_history : BOOLEAN]
    /\ repoValid = TRUE
    /\ rounds = 0
    /\ tree \in Trees
    /\ status = StatusNotRead
    /\ to_add = {}
    /\ shape \in Shapes
    /\ history \in (IF shape \in ShapesWithEntries THEN StoredHistories ELSE {<<>>})
    /\ HISTORY = Value("list", <<>>)
    /\ EMOJIS = EmojiList
    /\ commits = <<>>
    /\ printed = NoValue
    /\ clock = 1
    /\ pc = "import"
    /\ outcome = "running"
    /\ wpc = "AskEmoji"
    /\ wiz = FreshState
    /\ typed = FreshState
    /\ recoverOf = "none"
    /\ ev = [kind |-> "start", at |-> "import", input |-> "-"]
    /\ titleCancelled = FALSE
    /\ restarts = 0
    /\ InitRemotes({[remotes |-> <<>>, cli |-> <<>>, refs |-> {}]})

\* "gitmojis_setup()" at the import of gitmopy.cli, before the command runs
ImportCli ==
    /\ pc = "import"
    /\ GitmojisSetup
    /\ IF SetupRaises
       THEN Exit("error")
       ELSE pc' = "loop" /\ outcome' = outcome
    /\ ev' = [kind |-> "setup", at |-> "import", input |-> "-"]
    /\ UNCHANGED <<fmtVars, cmdVars, repoVars, wizVars, remVars>>

NextHistory ==
    \/ ImportCli
    \/ CommitLoopTop
    \/ AskEmoji
    \/ AskTitle(AgainTitles)
    \/ CommitRecord
    \/ ShouldCommitAgain

SpecHistory == InitHistory /\ [][NextHistory]_vars

(***************************************************************************)
(* The completer of a text prompt on histories of up to all the bounded    *)
(* strings, with values used twice and timestamps that tie.                *)
(***************************************************************************)
RECURSIVE SetToSeq(_)
SetToSeq(S) ==
    IF S = {} THEN <<>>
    ELSE LET x == CHOOSE y \in S : TRUE IN <<x>> \o SetToSeq(S \ {x})

Reverse(seq) == [i \in DOMAIN seq |-> seq[Len(seq) + 1 - i]]

\* the values of the histories: none; "a" or "A", alone or with one of the
\* strings V; all of V; all but the empty one
CompleterValueSets(V) ==
    {{}} \cup {{v, w} : v \in V, w \in {<<"a">>, <<"A">>}} \cup {V \ {<<>>}, V}

\* how the timestamps of a history run: rising, falling, all equal, alternating
StampSchemes == {"rising", "falling", "equal", "alternating"}

StampOf(scheme, i, n) ==
    IF scheme = "rising" THEN i
    ELSE IF scheme = "falling" THEN n + 1 - i
    ELSE IF scheme = "equal" THEN 1
    ELSE 1 + (i % 2)

\* the history of a sequence of values: entry i has the i-th value as its scope
\* and the next value as its title
HistoryOf(values, scheme) ==
    [i \in DOMAIN values |->
        HistoryEntry([emoji |-> EmojiList[1], scope |-> values[i],
                      title |-> values[(i % Len(values)) + 1], message |-> <<>>],
                     StampOf(scheme, i, Len(values)))]

\* the histories of the specification: every value once, and possibly the first
\* or last entry once more, older or newer than all
CompleterHistories(V) ==
    UNION { LET base == HistoryOf(values, scheme)
                n == Len(base)
            IN  {base}
                \cup {Append(base, [base[i] EXCEPT !.timestamp = t]) :
                        i \in {1, n} \cap DOMAIN base, t \in {0, n + 1}}
          : values \in UNION {{SetToSeq(S), Reverse(SetToSeq(S))} : S \in CompleterValueSets(V)},
            scheme \in StampSchemes }

InitCompleter ==
    /\ \E h \in CompleterHistories(StringsUpTo(MaxLen)) :
         /\ history = h
         /\ HISTORY = Value("list", h)
    /\ rec = FreshState
    /\ out = NoValue
    /\ capOut = NoValue
    /\ banner = NoValue
    /\ offered = {}
    /\ key \in {"scope", "title"}
    /\ document \in {<<>>, <<"a">>, <<"A", " ">>}
    /\ completions = NotCalled
    /\ flags = [dry |-> FALSE, add |-> FALSE, push |-> FALSE, sign |-> FALSE,
                keep |-> FALSE]
    /\ cfg = [skip_scope |-> FALSE, skip_message |-> FALSE,
              capitalize_title |-> FALSE, enable_history |-> TRUE]
    /\ repoValid = FALSE
    /\ rounds = 0
    /\ tree = NoFiles
    /\ status = StatusNotRead
    /\ to_add = {}
    /\ commits = <<>>
    /\ printed = NoValue
    /\ clock = 1
    /\ pc = "complete"
    /\ outcome = "running"
    /\ wpc = "AskTitle"
    /\ wiz = FreshState
    /\ typed = FreshState
    /\ recoverOf = "none"
    /\ ev = [kind |-> "start", at |-> "complete", input |-> "-"]
    /\ titleCancelled = FALSE
    /\ restarts = 0
    /\ shape = "list"
    /\ EMOJIS = EmojiList
    /\ InitRemotes({[remotes |-> <<>>, cli |-> <<>>, refs |-> {}]})

\* the prompt asks its completer for the completions of the text typed so far
Complete ==
    /\ ~completions.called
    /\ completions' = [called |-> TRUE,
                       texts |-> GetCompletions(HISTORY.entries, key, document)]
    /\ UNCHANGED <<rec, out, capOut, banner, offered, key, document>>
    /\ UNCHANGED <<cmdVars, histVars, repoVars, wizVars, remVars, pc, outcome, ev>>

NextCompleter == Complete

SpecCompleter == InitCompleter /\ [][NextCompleter]_vars

(***************************************************************************)
(* The commit command under every combination of --dry, --add, --push and  *)
(* --keep-alive, on a valid or an invalid repository, with the history     *)
(* enabled. The wizard asks for the emoji and the title only and no prompt *)
(* is interrupted.                                                         *)
(***************************************************************************)
OptionFlags ==
    [dry : BOOLEAN, add : BOOLEAN, push : BOOLEAN, sign : {FALSE}, keep : BOOLEAN]

\* the repositories of the specification: no remote; one remote in sync, named
\* with --remote or not; two remotes, the one that has not the branch yet
\* named with --remote beside a name of no remote
OptionRemoteConfigs ==
    { [remotes |-> <<>>, cli |-> <<>>, refs |-> {}],
      [remotes |-> <<"origin">>, cli |-> <<>>, refs |-> {"origin"}],
      [remotes |-> <<"origin">>, cli |-> <<"origin">>, refs |-> {"origin"}],
      [remotes |-> <<"origin", "fork">>, cli |-> <<"fork", Ghost>>,
       refs |-> {"origin"}] }

InitOptions ==
    /\ IdleFormat
    /\ flags \in OptionFlags
    /\ cfg = [skip_scope |-> TRUE, skip_message |-> TRUE,
              capitalize_title |-> FALSE, enable_history |-> TRUE]
    /\ repoValid \in BOOLEAN
    /\ rounds = 0
    /\ tree \in (IF repoValid THEN Trees ELSE {NoFiles})
    /\ status = StatusNotRead
    /\ to_add = {}
    /\ history = <<>>
    /\ IdleHistory
    /\ commits = <<>>
    /\ printed = NoValue
    /\ clock = 1
    /\ pc = "loop"
    /\ outcome = "running"
    /\ wpc = "AskEmoji"
    /\ wiz = FreshState
    /\ typed = FreshState
    /\ recoverOf = "none"
    /\ ev = [kind |-> "start", at |-> "commit", input |-> "-"]
    /\ titleCancelled = FALSE
    /\ restarts = 0
    /\ InitRemotes(OptionRemoteConfigs)

NextOptions ==
    \/ CommitLoopTop
    \/ GitAddPrompt
    \/ AskEmoji
    \/ AskTitle(AgainTitles)
    \/ CommitRecord
    \/ ShouldCommitAgain
    \/ PullSelect
    \/ PullRemote
    \/ PushSelect
    \/ PushFetch
    \/ PushRemote

SpecOptions == InitOptions /\ [][NextOptions]_vars

(***************************************************************************)
(* The claims.                                                             *)
(***************************************************************************)
\* x is y without its leading and trailing whitespace
IsTrimOf(x, y) ==
    \E i, j \in 0..Len(y) :
        /\ i + Len(x) + j = Len(y)
        /\ x = SubSeq(y, i + 1, i + Len(x))
        /\ \A k \in 1..i : IsSpace(y[k])
        /\ \A k \in (Len(y) - j + 1)..Len(y) : IsSpace(y[k])
        /\ x # <<>> => ~IsSpace(x[1]) /\ ~IsSpace(x[Len(x)])

\* '{emoji} ({scope}): {title}\n\n{message}', or '{emoji} {title}\n\n{message}'
Template(r) ==
    IF r.scope # <<>>
    THEN r.emoji \o <<" ", "(">> \o r.scope \o <<")", ":", " ">> \o r.title
         \o <<"\n", "\n">> \o r.message
    ELSE r.emoji \o <<" ">> \o r.title \o <<"\n", "\n">> \o r.message

WizardPrompts == {"AskEmoji", "AskScope", "AskTitle", "AskMessage"}

\* the prompt shown before a prompt
PrevVisiblePrompt(config, at) ==
    IF at = "AskMessage" THEN "AskTitle"
    ELSE IF at = "AskTitle" /\ ~config.skip_scope THEN "AskScope"
    ELSE "AskEmoji"

\* the fields entered before a prompt
FieldsBefore(at) ==
    IF at = "AskEmoji" THEN {}
    ELSE IF at = "AskScope" THEN {"emoji"}
    ELSE IF at = "AskTitle" THEN {"emoji", "scope"}
    ELSE {"emoji", "scope", "title"}

\* C2 (as claimed): a cancellation at the scope, title or message prompt goes back
\* to the previous visible prompt of the same wizard, keeps the fields entered
\* before that prompt, and nothing reaches the caller of the wizard.
C2_CancelStepsBack ==
    [][ (ev'.kind = "cancel" /\ ev'.at \in {"AskScope", "AskTitle", "AskMessage"})
        => /\ pc' = "wizard"
           /\ wpc' = PrevVisiblePrompt(cfg, ev'.at)
           /\ \A f \in FieldsBefore(wpc') : wiz'[f] = wiz[f]
           /\ recoverOf' = recoverOf ]_vars

\* the record of a wizard run that is given the inputs t and is never cancelled
UncancelledRun(config, t) ==
    [emoji |-> Strip(t.emoji),
     scope |-> IF config.skip_scope THEN <<>> ELSE Strip(t.scope),
     title |-> IF config.capitalize_title THEN Capitalize(Strip(t.title))
               ELSE Strip(t.title),
     message |-> IF config.skip_message THEN <<>> ELSE Strip(t.message)]

\* every prompt the configuration shows was answered in the run
AllAsked(config, t) ==
    /\ t.emoji \in Emojis
    /\ t.title # NoValue
    /\ (t.scope # NoValue) = ~config.skip_scope
    /\ (t.message # NoValue) = ~config.skip_message

\* C3: the record a wizard returns is the record of an uncancelled run on the
\* inputs given since the wizard was (re)started, whether or not a run was
\* cancelled at the title prompt before.
C3_CancelTransparent ==
    pc = "record" => AllAsked(cfg, typed) /\ wiz = UncancelledRun(cfg, typed)

\* a record returned after a run was cancelled at the title prompt
C3_Witness ==
    /\ pc = "record"
    /\ titleCancelled
    /\ restarts > 0
    /\ wiz.scope # <<>>

\* C4: a cancelled run is followed by the recovery prompt, once: "q" ends the
\* command (Done) with no file staged, no history entry, no commit and no remote
\* operation; any other answer starts the loop over, which comes back to a prompt,
\* and every wizard that starts is at AskEmoji with no field set. An interrupt
\* in the recovery prompt ends the command too. Nothing runs after the command
\* has ended.
C4_RecoveryPrompt ==
    [][ /\ ev'.kind = "cancel" =>
             IF ev'.at = "recovery_prompt"
             THEN /\ pc' = "end" /\ outcome' = "abort"
                  /\ UNCHANGED <<tree, history, commits, log, printed>>
             ELSE pc' = "recover"
        /\ pc = "recover" => ev'.kind = "recovery" \/ ev'.at = "recovery_prompt"
        /\ ev'.kind = "recovery" =>
             /\ pc = "recover"
             /\ UNCHANGED <<tree, history, commits, log, printed>>
             /\ IF ev'.input = "q"
                THEN pc' = "end" /\ outcome' = "done"
                ELSE pc' = "loop" /\ outcome' = "running"
        /\ (ev.kind = "recovery" /\ pc = "loop") =>
             /\ pc' \in {"wizard", "add_prompt"}
             /\ UNCHANGED <<tree, history, commits, log, printed>>
        /\ (pc # "wizard" /\ pc' = "wizard") => wpc' = "AskEmoji" /\ wiz' = FreshState
        /\ pc # "end" ]_vars

\* a wizard restarted from the recovery prompt, after a run that had fields set
C4_Witness ==
    /\ pc = "wizard"
    /\ wpc = "AskEmoji"
    /\ wiz = FreshState
    /\ ev.kind = "loop"
    /\ restarts > 0
    /\ titleCancelled

\* C5 (as claimed): the record the wizard returns has a non-empty title.
C5_TitleNonEmpty ==
    pc = "record" => wiz.title # <<>>

\* C6 (as claimed): with capitalize_title the returned title is the stripped input
\* with only its first character upper-cased (safe_capitalize), and the stripped
\* input itself otherwise.
C6_TitleSafeCapitalized ==
    pc = "record" =>
        wiz.title = IF cfg.capitalize_title THEN SafeCapitalize(Strip(typed.title))
                    ELSE Strip(typed.title)

\* the operations run against a remote, and the prompt about one
RemoteOps == {"fetch", "push", "push_set_upstream", "pull", "set_upstream_prompt", "skip"}

Logged(op) == {i \in DOMAIN log : log[i].op = op}

LoggedOn(op, remote) == {i \in DOMAIN log : log[i].op = op /\ log[i].remote = remote}

\* C7: with exactly one configured remote, push_cli and pull_cli show no
\* selection prompt, select exactly that remote and work on it alone, whatever
\* was given with --remote.
C7_OneRemoteNoPrompt ==
    Len(remotes) = 1 =>
        /\ Logged("choose_remote_prompt") = {}
        /\ rpc \in {"fetch", "remote"} => selected_remotes = {remotes[1]}
        /\ \A i \in DOMAIN log : log[i].op \in RemoteOps => log[i].remote = remotes[1]
        /\ outcome # "abort"

\* one remote, a --remote list that does not name it, and the remote pushed
C7_Witness ==
    /\ Len(remotes) = 1
    /\ cli # <<>>
    /\ remotes[1] \notin ToSet(cli)
    /\ \E i \in DOMAIN log : log[i].op \in {"push", "push_set_upstream"}
    /\ \E i \in DOMAIN log : log[i].op = "pull"

\* C8: with several remotes and names given with --remote, the selection is
\* exactly the given names and no selection prompt is shown; a name of no
\* configured remote causes no operation, no prompt and no error (the call
\* fails only when a fetch fails), and every configured remote that is named is
\* pushed or skipped by push_cli.
C8_NamesUsedVerbatim ==
    (Len(remotes) > 1 /\ cli # <<>>) =>
        /\ Logged("choose_remote_prompt") = {}
        /\ rpc \in {"fetch", "remote"} => selected_remotes = ToSet(cli)
        /\ \A i \in DOMAIN log : log[i].op \in RemoteOps => log[i].remote \in ToSet(remotes)
        /\ outcome # "abort"
        /\ outcome = "error" =>
             log # <<>> /\ log[Len(log)] = Event("fetch", log[Len(log)].remote, "git_error")
        /\ (outcome = "done" /\ Logged("fetch") # {}) =>
             \A r \in ToSet(cli) \cap ToSet(remotes) :
                 LoggedOn("push", r) \cup LoggedOn("push_set_upstream", r)
                     \cup LoggedOn("skip", r) # {}

\* a push with a configured name and an unknown name given, ended without error
C8_Witness ==
    /\ Len(remotes) > 1
    /\ Ghost \in ToSet(cli)
    /\ ToSet(cli) \cap ToSet(remotes) # {}
    /\ outcome = "done"
    /\ \E i \in DOMAIN log : log[i].op \in {"push", "push_set_upstream"}

\* C9: an empty answer to the selection prompt aborts the call: the prompt is
\* the last thing that happened, and no fetch, push or pull runs with an empty
\* selection.
C9_EmptySelectionAborts ==
    /\ outcome = "abort" =>
         /\ Len(remotes) > 1 /\ cli = <<>>
         /\ selected_remotes = {}
         /\ pc = "end"
         /\ log # <<>> /\ log[Len(log)].op = "choose_remote_prompt"
    /\ (ev.kind = "select" /\ selected_remotes = {} /\ Len(remotes) > 0) =>
         outcome = "abort"
    /\ rpc \in {"fetch", "remote"} => selected_remotes # {}

\* the prompt of push_cli answered with nothing, after the pull of a sync
C9_Witness ==
    /\ outcome = "abort"
    /\ ev.at = "push"
    /\ Logged("pull") # {}
    /\ Logged("fetch") = {}

\* C10: a plain push goes only to a remote that has the ref and was not asked
\* about; a remote without the ref is asked about, pushed with --set-upstream
\* right after a yes and skipped, never pushed, after a no; and when push_cli
\* returns every selected remote was pushed or asked about.
C10_UpstreamBeforePush ==
    /\ \A i \in Logged("push") :
         /\ log[i].remote \in refs
         /\ remote_upstreams[log[i].remote]
         /\ LoggedOn("set_upstream_prompt", log[i].remote) = {}
    /\ \A i \in Logged("push_set_upstream") :
         /\ i > 1
         /\ log[i - 1] = Event("set_upstream_prompt", log[i].remote, "yes")
    /\ \A i \in Logged("set_upstream_prompt") :
         /\ ~remote_upstreams[log[i].remote]
         /\ log[i].remote \in selected_remotes
         /\ i < Len(log)
         /\ log[i + 1].remote = log[i].remote
         /\ log[i + 1].op = IF log[i].res = "yes" THEN "push_set_upstream" ELSE "skip"
         /\ log[i].res = "no" =>
              LoggedOn("push", log[i].remote)
                  \cup LoggedOn("push_set_upstream", log[i].remote) = {}
    /\ (outcome = "done" /\ Logged("fetch") # {}) =>
         \A r \in selected_remotes \cap ToSet(remotes) :
             IF remote_upstreams[r]
             THEN Cardinality(LoggedOn("push", r)) = 1
             ELSE Cardinality(LoggedOn("set_upstream_prompt", r)) = 1

\* one remote pushed plainly, one pushed with --set-upstream, or skipped
C10_Witness ==
    /\ outcome = "done"
    /\ Logged("push") # {}
    /\ Logged("skip") # {}
    /\ \E i \in Logged("set_upstream_prompt") : log[i].res = "no"

(***************************************************************************)
(* The loops over the remotes: failures, confirmations, order.             *)
(***************************************************************************)
\* the git operations of the loops, and the lines that confirm them
PushOps == {"push", "push_set_upstream"}

\* the entries of the log that belong to the loop of push_cli, of pull_cli
PushLoopOps == PushOps \cup {"set_upstream_prompt", "skip", "pushed",
                             "pushed_upstream_created"}

PullLoopOps == {"pull", "pulled"}

\* the position of a remote in repo.remotes
PositionOf(remote) == CHOOSE i \in DOMAIN remotes : remotes[i] = remote

\* the selected remotes the running loop has gone past
Passed(call) ==
    IF calls # <<>> /\ Head(calls) = call /\ rpc = "remote" /\ pc = "remote"
    THEN {remotes[j] : j \in 1..(idx - 1)} \cap selected_remotes
    ELSE {}

\* C11: a push or pull that fails stops nothing: the loop has attempted every
\* selected remote it went past, once, whatever the results; the command ends
\* in an error only on a failed fetch; no remote is pushed to or pulled from
\* twice in a call; no upstream prompt is shown while pull_cli runs; and a call
\* that returns has attempted every selected remote.
C11_FailureIsolated ==
    /\ \A r \in Passed("pull") : Cardinality(LoggedOn("pull", r)) = 1
    /\ \A r \in Passed("push") :
         Cardinality(LoggedOn("push", r) \cup LoggedOn("push_set_upstream", r)
                         \cup LoggedOn("skip", r)) = 1
    /\ \A r \in ToSet(remotes) :
         /\ Cardinality(LoggedOn("pull", r)) <= 1
         /\ Cardinality(LoggedOn("push", r) \cup LoggedOn("push_set_upstream", r)) <= 1
    /\ outcome = "error" => log # <<>> /\ log[Len(log)].op = "fetch"
    /\ (calls # <<>> /\ Head(calls) = "pull") => Logged("set_upstream_prompt") = {}
    /\ (outcome = "done" /\ ev.kind = "remote") =>
         \A r \in selected_remotes \cap ToSet(remotes) :
             IF ev.at = "pull"
             THEN Cardinality(LoggedOn("pull", r)) = 1
             ELSE Cardinality(LoggedOn("push", r) \cup LoggedOn("push_set_upstream", r)
                                  \cup LoggedOn("skip", r)) = 1

\* a pull failed on the first remote, for a reason that is no GitCommandError,
\* and the second remote was pulled, then pushed
C11_Witness ==
    /\ Len(remotes) = 2
    /\ outcome = "done"
    /\ \E i \in LoggedOn("pull", remotes[1]) : log[i].res = "other_error"
    /\ \E i \in LoggedOn("pull", remotes[2]) : log[i].res = "ok"
    /\ \E i \in Logged("push") : log[i].res = "git_error"

\* C12: a confirmation for a remote is printed if and only if the push (the
\* pull) to it was run and succeeded; a push or pull that fails, for any kind
\* of failure, is followed by the display of the error and by no confirmation.
C12_ConfirmationIffSuccess ==
    /\ \A i \in DOMAIN log :
         log[i].op \in {"pushed", "pushed_upstream_created", "pulled"} =>
             /\ i > 1
             /\ log[i - 1].remote = log[i].remote
             /\ log[i - 1].res = "ok"
    /\ \A i \in DOMAIN log :
         (log[i].op \in PushOps \cup {"pull"} /\ log[i].res # "ok") =>
             (i < Len(log) => log[i + 1] = Event("error", log[i].remote, "could not push"))

\* C13: a fetch that fails during a push does not end the command in an error,
\* and once push_cli is over every remote was fetched.
C13_FetchFailureIsolated ==
    /\ (\E i \in Logged("fetch") : log[i].res # "ok") => outcome # "error"
    /\ (pc = "end" /\ Logged("fetch") # {}) =>
         \A r \in ToSet(remotes) : LoggedOn("fetch", r) # {}

\* C14 as claimed: no operation of push_cli, fetch or push, is run against a
\* remote that is not selected.
C14_UnselectedNeverTouched ==
    \A i \in DOMAIN log :
        log[i].op \in PushOps \cup {"fetch"} => log[i].remote \in selected_remotes

\* the scenario: origin has the branch, fork has not, --remote fork
ForkOnly ==
    /\ remotes = <<"origin", "fork">>
    /\ cli = <<"fork">>
    /\ "fork" \notin refs

\* C14, amended: every remote is fetched, selected or not, and only selected
\* remotes are asked about, pushed to or skipped. With origin and fork,
\* --remote fork and the upstream declined, no push is run, origin is fetched
\* and nothing else, and push_cli returns without error.
C14_UnselectedNeverPushed ==
    /\ \A i \in DOMAIN log :
         log[i].op \in PushLoopOps => log[i].remote \in selected_remotes
    /\ (ForkOnly /\ LoggedOn("skip", "fork") # {}) =>
         /\ Logged("push") \cup Logged("push_set_upstream") = {}
         /\ \A i \in DOMAIN log :
              log[i].remote = "origin" => log[i].op = "fetch"
         /\ LoggedOn("fetch", "origin") # {}
         /\ outcome \in {"running", "done"}
         /\ pc = "end" => outcome = "done"

\* the scenario, run to its end
C14_Witness ==
    /\ ForkOnly
    /\ calls = <<>>
    /\ outcome = "done"
    /\ log = <<Event("fetch", "origin", "ok"), Event("fetch", "fork", "ok"),
               Event("set_upstream_prompt", "fork", "no"), Event("skip", "fork", "-")>>

\* C15: each loop visits the remotes in the order of repo.remotes, whatever the
\* order of the names given or chosen, and is done with a remote before it
\* starts on the next: in the log of a loop the positions of the remotes never
\* decrease.
C15_RepositoryOrder ==
    \A i, j \in DOMAIN log :
        (/\ i < j
         /\ \/ log[i].op \in PushLoopOps /\ log[j].op \in PushLoopOps
            \/ log[i].op \in PullLoopOps /\ log[j].op \in PullLoopOps)
        => PositionOf(log[i].remote) <= PositionOf(log[j].remote)

\* the names given in the reverse of the repository's order, both remotes pushed
C15_Witness ==
    /\ Len(remotes) = 2
    /\ cli = <<remotes[2], remotes[1]>>
    /\ outcome = "done"
    /\ \E i, j \in Logged("push") \cup Logged("push_set_upstream") :
         i < j /\ log[i].remote = remotes[1] /\ log[j].remote = remotes[2]

(***************************************************************************)
(* The divergence banner and the choices of the "commit again" prompt.     *)
(***************************************************************************)
\* what git tells about a remote
HasBranch(r) == r \in refs

IsAhead(r) == HasBranch(r) /\ div[r].ahead > 0

IsBehind(r) == HasBranch(r) /\ div[r].behind > 0

Diverges(r) == ~HasBranch(r) \/ IsAhead(r) \/ IsBehind(r)

\* the lines of the banner about a remote
LinesOf(r) == {i \in DOMAIN banner : banner[i].remote = r}

\* C16: the banner is empty exactly when every remote has the branch and is
\* neither ahead nor behind; otherwise it names every remote that is ahead,
\* behind or without the branch. A remote without the branch has no count in
\* the banner, and is counted in neither sum: with such a remote and every
\* other remote in sync the banner holds no ahead line and no behind line.
C16_EmptyIffInSync ==
    banner # NoValue =>
        /\ banner = <<>> <=> \A r \in ToSet(remotes) : ~Diverges(r)
        /\ banner # <<>> => \A r \in ToSet(remotes) : Diverges(r) => LinesOf(r) # {}
        /\ \A r \in ToSet(remotes) : ~HasBranch(r) =>
             \A i \in LinesOf(r) : banner[i].text = "does not have a branch"
        /\ (\A r \in ToSet(remotes) : ~IsAhead(r) /\ ~IsBehind(r)) =>
             \A i \in DOMAIN banner :
                 banner[i].text \in {"Remotes diff:", "does not have a branch"}

\* a remote without the branch beside a remote ahead and behind
C16_Witness ==
    /\ banner # NoValue /\ banner # <<>>
    /\ \E r, q \in ToSet(remotes) : ~HasBranch(r) /\ IsAhead(q) /\ IsBehind(q)

\* C17 as claimed: in a banner every remote that is ahead, behind or without
\* the branch has exactly one line, and a remote in sync has none.
C17_OneLinePerRemote ==
    (banner # NoValue /\ banner # <<>>) =>
        \A r \in ToSet(remotes) :
            Cardinality(LinesOf(r)) = IF Diverges(r) THEN 1 ELSE 0

\* C17, amended: in a banner a remote without the branch has one line, a remote
\* with the branch has one line if it is behind and one more if it is ahead (two
\* lines when it is both, the behind line first), and a remote in sync has none.
C17_OneLinePerCount ==
    (banner # NoValue /\ banner # <<>>) =>
        \A r \in ToSet(remotes) :
            /\ Cardinality(LinesOf(r)) =
                 IF ~HasBranch(r) THEN 1
                 ELSE (IF IsBehind(r) THEN 1 ELSE 0) + (IF IsAhead(r) THEN 1 ELSE 0)
            /\ (IsBehind(r) /\ IsAhead(r)) =>
                 \E i \in LinesOf(r) :
                     /\ banner[i] = Line("local is behind", r, div[r].behind)
                     /\ banner[i + 1] = Line("local is ahead of", r, div[r].ahead)

\* a banner about a remote that is both ahead and behind
C17_Witness ==
    /\ banner # NoValue
    /\ \E r \in ToSet(remotes) :
         IsBehind(r) /\ IsAhead(r) /\ Cardinality(LinesOf(r)) = 2

\* C18 as claimed: commit again, push and quit are always offered, and sync is
\* offered exactly when some remote has the branch.
C18_SyncIffSomeBranch ==
    offered # {} =>
        /\ {"c", "p", "q"} \subseteq offered
        /\ "s" \in offered <=> \E r \in ToSet(remotes) : HasBranch(r)

\* C18, amended: commit again and quit are always offered; push is offered
\* exactly when the banner is not empty; sync is offered exactly when the banner
\* is not empty and every remote has the branch.
C18_SyncIffNoBranchMissing ==
    offered # {} =>
        /\ offered \subseteq {"c", "p", "s", "q"}
        /\ {"c", "q"} \subseteq offered
        /\ "p" \in offered <=> \E r \in ToSet(remotes) : Diverges(r)
        /\ "s" \in offered <=>
             /\ \E r \in ToSet(remotes) : Diverges(r)
             /\ \A r \in ToSet(remotes) : HasBranch(r)

\* one remote behind with the branch, another without: push offered, sync not
C18_Witness ==
    /\ offered = {"c", "p", "q"}
    /\ \E r, q \in ToSet(remotes) : IsBehind(r) /\ ~HasBranch(q)

(***************************************************************************)
(* The "commit again" prompt in the loop, and the iteration with nothing   *)
(* staged.                                                                 *)
(***************************************************************************)
\* the push and pull chosen in the prompt have just returned
JustRan == pc = "again" /\ ev.kind \in {"remote", "select"}

NothingStaged ==
    pc = "loop" /\ repoValid /\ ~flags.dry /\ ~flags.add /\ tree.staged = {}

\* C20 as claimed: such an iteration exits with code 1 and the message about
\* --add, with no commit and no wizard, whatever the other files.
C20_NoStagedExitsOne ==
    [][NothingStaged =>
         /\ pc' = "end" /\ outcome' = "exit1"
         /\ printed' = NoStagedFiles
         /\ commits' = commits
      ]_vars

\* C20, amended: such an iteration exits with code 1 and the message about
\* --add when the working tree has an unstaged or untracked file; with no file
\* at all it prints "Nothing to commit." instead and exits with code 0, or goes
\* to the "commit again" prompt with --keep-alive. Either way no commit is
\* created and no wizard is started.
C20_NoStagedExitsOneOrZero ==
    [][NothingStaged =>
         /\ commits' = commits /\ tree' = tree /\ history' = history
         /\ pc' # "wizard" /\ wpc' = wpc /\ wiz' = wiz
         /\ IF tree.unstaged \cup tree.untracked # {}
            THEN /\ pc' = "end" /\ outcome' = "exit1"
                 /\ printed' = NoStagedFiles
            ELSE /\ printed' = NothingToCommit
                 /\ IF flags.keep
                    THEN pc' = "again" /\ outcome' = "running"
                    ELSE pc' = "end" /\ outcome' = "exit0"
      ]_vars

\* exit 1 on the second iteration: a file committed, another left unstaged
C20_Witness ==
    /\ outcome = "exit1"
    /\ printed = NoStagedFiles
    /\ Len(commits) = 1
    /\ tree.staged = {} /\ tree.unstaged # {}
    /\ ~flags.add

(***************************************************************************)
(* The dry run and the invalid repository.                                 *)
(***************************************************************************)
\* C21: in a dry run no step of the command stages a file, appends to the
\* history, creates a commit, or starts a push or a pull, whatever --add,
\* --push and --keep-alive are; no file selection and no "commit again" prompt
\* is shown; and the step that follows the completed wizard prints the
\* formatted message (emoji, blank, title when scope and message are empty) and
\* exits with code 0.
C21_DryRunChangesNothing ==
    [][flags.dry =>
         /\ tree' = tree /\ history' = history /\ commits' = commits
         /\ log' = log /\ calls' = calls /\ to_add' = to_add
         /\ pc' \notin {"add_prompt", "again", "remote"}
         /\ pc = "record" =>
              /\ printed' = MessageFromCommitDict(wiz)
              /\ (wiz.scope = <<>> /\ wiz.message = <<>>) =>
                    printed' = wiz.emoji \o <<" ">> \o wiz.title
              /\ pc' = "end" /\ outcome' = "exit0"
         /\ outcome' # "running" => (pc = "record" /\ outcome' = "exit0")
      ]_vars

\* a dry run with --add, --push and --keep-alive and the history enabled, on
\* a repository with nothing staged, after its preview
C21_Witness ==
    /\ flags.dry /\ flags.add /\ flags.push /\ flags.keep
    /\ cfg.enable_history
    /\ repoValid /\ tree.staged = {} /\ tree.unstaged # {}
    /\ outcome = "exit0"
    /\ printed = <<":sparkles:", " ", "a">>

\* C22: on a path that is no repository, the first step of a non-dry run
\* reports it and exits with code 1, with no prompt shown and nothing staged,
\* written to the history or committed; the first step of a dry run starts the
\* wizard without reading the file status, the completed wizard is followed by
\* the preview and exit code 0, and no file status is ever read.
C22_InvalidRepository ==
    [][~repoValid =>
         /\ tree' = tree /\ history' = history /\ commits' = commits
         /\ status' = StatusNotRead /\ log' = log
         /\ pc = "loop" =>
              IF ~flags.dry
              THEN /\ pc' = "end" /\ outcome' = "exit1"
                   /\ printed' = NotAValidRepository
                   /\ wiz' = wiz /\ typed' = typed
              ELSE /\ pc' = "wizard" /\ wpc' = "AskEmoji" /\ wiz' = FreshState
                   /\ outcome' = "running" /\ printed' = printed
         /\ pc = "record" =>
              /\ flags.dry
              /\ printed' = MessageFromCommitDict(wiz)
              /\ pc' = "end" /\ outcome' = "exit0"
         /\ pc' \notin {"add_prompt", "again", "remote"}
      ]_vars

\* the preview of a dry run on a path that is no repository
C22_Witness ==
    /\ ~repoValid /\ flags.dry
    /\ outcome = "exit0"
    /\ printed = MessageFromCommitDict(wiz) /\ wiz.title # NoValue
    /\ status = StatusNotRead

(***************************************************************************)
(* The completer and the history.                                          *)
(***************************************************************************)
\* the values of the completer's field in the history
FieldValues == {HISTORY.entries[i][key] : i \in DOMAIN HISTORY.entries}

\* the values the typed text is a prefix of, whatever the case of the letters
Matching == {v \in FieldValues : StartsWith(LowerStr(v), LowerStr(document))}

\* the most recent timestamp at which a value was used
Recency(v) ==
    LET used == {i \in DOMAIN HISTORY.entries : HISTORY.entries[i][key] = v}
    IN  CHOOSE t \in {HISTORY.entries[i].timestamp : i \in used} :
            \A i \in used : HISTORY.entries[i].timestamp <= t

\* the place of the first entry with the value
FirstUse(v) ==
    CHOOSE i \in DOMAIN HISTORY.entries :
        /\ HISTORY.entries[i][key] = v
        /\ \A j \in 1..(i - 1) : HISTORY.entries[j][key] # v

\* v comes before w in the ranking: used more recently, or as recently and
\* entered first
RanksBefore(v, w) ==
    \/ Recency(v) > Recency(w)
    \/ Recency(v) = Recency(w) /\ FirstUse(v) < FirstUse(w)

\* C23: the completions are distinct values of the field in the history that
\* start with the typed text compared case-insensitively, in the order of the
\* most recent use, most recent first, equally recent ones in the order of
\* their first entry; and they are the first ten of all the matching values in
\* that order.
C23_CompletionsRanked ==
    completions.called =>
        /\ \A i \in DOMAIN completions.texts : completions.texts[i] \in Matching
        /\ \A i, j \in DOMAIN completions.texts :
              i < j => RanksBefore(completions.texts[i], completions.texts[j])
        /\ Len(completions.texts) = IF Cardinality(Matching) < MaxCompletions
                              THEN Cardinality(Matching) ELSE MaxCompletions
        /\ \A m \in Matching :
              (\A i \in DOMAIN completions.texts : completions.texts[i] # m) =>
                  \A i \in DOMAIN completions.texts : RanksBefore(completions.texts[i], m)

\* ten completions out of more matching values, some as recent as one
\* another, one left out that was entered among the first ten values, and a
\* value used twice
C23_Witness ==
    /\ completions.called
    /\ Len(completions.texts) = MaxCompletions
    /\ Cardinality(Matching) > MaxCompletions
    /\ \E i, j \in DOMAIN completions.texts :
          i < j /\ Recency(completions.texts[i]) = Recency(completions.texts[j])
    /\ \E m \in Matching :
          /\ \A i \in DOMAIN completions.texts : completions.texts[i] # m
          /\ FirstUse(m) <= MaxCompletions
    /\ Len(HISTORY.entries) > Cardinality(FieldValues)

\* seq is the beginning of longer
IsPrefix(seq, longer) ==
    Len(seq) <= Len(longer) /\ SubSeq(longer, 1, Len(seq)) = seq

C25_MalformedHistoryNonFatal ==
    /\ [](outcome # "error")
    /\ [][pc = "import" =>
            /\ pc' = "loop"
            /\ (cfg.enable_history /\ shape \notin {"absent", "list"}) =>
                  HISTORY' = Value("list", <<>>)
         ]_vars

(***************************************************************************)
(* has_upstreams, and the remote operations of the commit command.         *)
(***************************************************************************)
\* has_upstreams has returned to push_cli
UpstreamsComputed == pc = "remote" /\ rpc = "fetch" /\ rpc' = "remote"

\* C26: what has_upstreams returns maps every requested name to true exactly
\* when the remote-tracking ref of that remote exists once the fetch is done,
\* a name of no configured remote to false, and it is computed from the refs
\* of the repository at that call, whatever an earlier call returned.
C26_UpstreamsFromRefs ==
    [][UpstreamsComputed =>
         /\ selected_remotes \subseteq DOMAIN remote_upstreams'
         /\ \A r \in selected_remotes :
               /\ remote_upstreams'[r] <=> r \in refs'
               /\ r \notin ToSet(remotes) => ~remote_upstreams'[r]
         /\ \A r \in DOMAIN remote_upstreams' : remote_upstreams'[r] <=> r \in refs'
      ]_vars

\* the second push of a run: the first one was told that fork has not the
\* branch and created it, this one is told that fork has it, and both that
\* the name of no remote has not
C26_Witness ==
    /\ pc = "remote" /\ rpc = "remote" /\ rounds = 1 /\ flags.push
    /\ LoggedOn("push_set_upstream", "fork") # {}
    /\ selected_remotes = {"fork", Ghost}
    /\ remote_upstreams["fork"] /\ ~remote_upstreams[Ghost]
    /\ "fork" \in refs

\* the entries of the log that belong to the push step: the fetch of
\* has_upstreams and the loop of push_cli
PushStepOps == PushLoopOps \cup {"fetch"}

\* pull_cli is running for a sync: push_cli is still to be called
PullOfSync == pc = "remote" /\ calls = <<"pull", "push">>

\* the entries a step adds to the log
Added == {i \in DOMAIN log' : i > Len(log)}

\* C27: sync chosen in the prompt calls pull_cli and then push_cli; while
\* pull_cli runs nothing of the push step happens (no fetch, no upstream
\* prompt, no push); when push_cli is entered every configured remote of the
\* pull's selection has been pulled from, after everything earlier push steps
\* did; and a pull that fails leaves the command running with push_cli still
\* to be called.
C27_PullBeforePush ==
    [][/\ (pc = "again" /\ ev'.kind = "what_now" /\ ev'.input = "s") =>
             pc' = "remote" /\ calls' = <<"pull", "push">>
       /\ PullOfSync =>
            /\ \A i \in Added : log'[i].op \notin PushStepOps
            /\ (\E i \in Added : log'[i].op = "pull" /\ log'[i].res # "ok") =>
                  /\ outcome' = "running" /\ pc' = "remote"
                  /\ calls' \in {<<"pull", "push">>, <<"push">>}
            /\ calls' = <<"push">> =>
                  \A r \in selected_remotes \cap ToSet(remotes) :
                     \E i \in DOMAIN log' :
                        /\ log'[i].op = "pull" /\ log'[i].remote = r
                        /\ \A j \in DOMAIN log' :
                              log'[j].op \in PushStepOps => j < i
      ]_vars

\* the push step of a sync under way after the pulls of two remotes, one of
\* which failed
C27_Witness ==
    /\ pc = "remote" /\ calls = <<"push">> /\ rpc = "remote"
    /\ ev.at = "push"
    /\ LoggedOn("pull", "origin") # {} /\ LoggedOn("pull", "fork") # {}
    /\ \E i \in Logged("pull") : log[i].res = "git_error"
    /\ \E i \in Logged("push") : \A j \in Logged("pull") : j < i

\* C28: push_cli and pull_cli are entered only from a commit made with --push
\* or from push or sync chosen in the "commit again" prompt; without --push
\* and before any such choice nothing was fetched, pushed, pulled or asked about
\* the remotes, whatever --remote names; a pull happens only after such a
\* choice; and without --keep-alive and without --push no remote operation
\* happens at all.
C28_RemoteOpsOnlyOnRequest ==
    /\ []((~flags.push /\ rounds = 0) => (log = <<>> /\ pc # "remote"))
    /\ [](Logged("pull") # {} => (flags.keep /\ rounds > 0))
    /\ []((~flags.keep /\ ~flags.push) => (log = <<>> /\ rounds = 0))
    /\ [][(pc # "remote" /\ pc' = "remote") =>
             \/ /\ pc = "record" /\ flags.push /\ ~flags.dry
                /\ Len(commits') = Len(commits) + 1
                /\ calls' = <<"push">>
             \/ /\ pc = "again" /\ flags.keep
                /\ ev'.kind = "what_now" /\ ev'.input \in {"p", "s"}
         ]_vars

\* a push chosen in the prompt of a command started with --remote and without
\* --push
C28_Witness ==
    /\ ~flags.push /\ flags.keep /\ cli # <<>>
    /\ rounds = 1
    /\ Logged("push") # {}
    /\ Len(commits) = 1

\* C29: in a run without --dry, with --add and an empty stage, the working tree
\* and the index change only in the step that follows a completed wizard, and
\* then by the files chosen in the add prompt; the add prompt itself, whatever
\* is selected, a cancelled add prompt or wizard, and the quit or restart that
\* follows leave them as they were; and the iteration that follows a restart
\* reads the file status again, forgets the selection and asks it again.
C29_StagedAfterWizardOnly ==
    [][(~flags.dry /\ flags.add /\ repoValid /\ status.read /\ status.staged = {}) =>
         /\ tree' # tree =>
              /\ pc = "record"
              /\ to_add # {}
              /\ wiz.title # NoValue
              /\ tree'.staged \in {tree.staged \cup to_add, {}}
              /\ tree'.unstaged = tree.unstaged \ to_add
              /\ tree'.untracked = tree.untracked \ to_add
         /\ pc \in {"add_prompt", "wizard", "recover"} => tree' = tree
         /\ (pc = "add_prompt" /\ pc' = "wizard") => to_add' # {}
         /\ (pc = "add_prompt" /\ ev'.kind = "input" /\ to_add' = {}) =>
              pc' \in {"again", "end"}
         /\ (pc = "recover" /\ ev'.kind = "recovery") =>
              pc' = IF ev'.input = "q" THEN "end" ELSE "loop"
         /\ (pc = "loop" /\ restarts > 0) =>
              /\ status' = GetFilesStatus(tree)
              /\ to_add' = {}
              /\ pc' = "add_prompt"
      ]_vars

\* the add prompt is open again after a selection was made, the wizard was
\* cancelled and the command restarted: nothing is staged
C29_Witness ==
    /\ ~flags.dry /\ flags.add
    /\ pc = "add_prompt"
    /\ restarts = 1
    /\ recoverOf = "commit_prompt"
    /\ to_add = {}
    /\ tree.staged = {}
    /\ tree.unstaged # {}

\* C30: with enable_history set, the history holds one entry for each commit
\* created, and no other: a step of the command that creates no commit leaves
\* the history as it was, and a step that creates one appends one entry.
C30_HistoryEntryPerCommit ==
    /\ [](cfg.enable_history => Len(history) = Len(commits))
    /\ [][cfg.enable_history =>
             /\ Len(commits') = Len(commits) => history' = history
             /\ Len(commits') = Len(commits) + 1 =>
                  Len(history') = Len(history) + 1
         ]_vars

====
